---- MODULE Spec2Model ----
(***************************************************************************)
(* Model of the query pipeline of the NotebookLM repository:               *)
(*   src/app/api/query/route.ts  (POST, processStreamingQuery,              *)
(*                                processNonStreamingQuery, hashText)       *)
(* Two specifications share the module:                                    *)
(*   Spec      the life of one query request against the route handler     *)
(*   SpecRank  the diversity ranker (both copies) applied to bounded inputs *)
(***************************************************************************)
EXTENDS Integers, Sequences, FiniteSets, TLC

VARIABLES
    pc,            \* position of the request handler / background task
    req,           \* the parsed request (sessionId, query, selectedSources, ...)
    log,           \* the Chat table: sequence of turns, in creation order
    events,        \* the events written to (and accepted by) the response stream
    writer,        \* state of the stream writer: "none" | "open" | "errored" | "closed"
    calls,         \* history: the collaborator calls issued so far, in order
    response,      \* what POST returned to the caller
    run,           \* locals of the running query (retrieved, deduped, citations, ...)
    rk,            \* the ranker harness of SpecRank
    conc,          \* SpecConc: the position of each of the concurrent queries
    ws,            \* SpecSession: the Session table and the get-or-create calls
    crawl,         \* SpecCrawl: the locals of crawlSite
    ing,           \* SpecIngest: the Source and SourceChunk rows of one ingestion
    cli            \* SpecClient: the response body in flight and streamQuery's locals

\* the variables of the specifications that do not run the query handler
subsystems == <<conc, ws, crawl, ing, cli>>

\* the variables of the query handler
queryVars == <<pc, req, log, events, writer, calls, response, run, rk>>

vars == <<queryVars, subsystems>>

\* a specification leaves the subsystems it does not run switched off
SubsystemsOff ==
    /\ conc = "off"
    /\ ws = "off"
    /\ crawl = "off"
    /\ ing = "off"
    /\ cli = "off"

(***************************************************************************)
(* Bounds of the model                                                     *)
(***************************************************************************)
\* longest candidate list handed to the ranker in SpecRank
MaxCand == 4

(***************************************************************************)
(* Program constants                                                       *)
(***************************************************************************)
DefaultTopK == 8
DefaultTopN == 40
maxPerSourceFirstPass == 2

(***************************************************************************)
(* Text: a string is a sequence of UTF-16 code units                       *)
(***************************************************************************)
\* \s of the regular expression, restricted to the code units the model uses
IsSpace(c) == c \in {9, 10, 32}

\* String.prototype.toLowerCase on one code unit (ASCII letters)
LowerChar(c) == IF c >= 65 /\ c <= 90 THEN c + 32 ELSE c

\* s.replace(/\s+/g, " "): every maximal run of white space becomes one blank
RECURSIVE CollapseSpaces(_)
CollapseSpaces(s) ==
    IF s = << >> THEN << >>
    ELSE IF IsSpace(Head(s))
         THEN IF Len(s) > 1 /\ IsSpace(s[2])
              THEN CollapseSpaces(Tail(s))
              ELSE <<32>> \o CollapseSpaces(Tail(s))
         ELSE <<Head(s)>> \o CollapseSpaces(Tail(s))

\* String.prototype.trim
RECURSIVE TrimLeft(_)
TrimLeft(s) ==
    IF s # << >> /\ IsSpace(Head(s)) THEN TrimLeft(Tail(s)) ELSE s

RECURSIVE TrimRight(_)
TrimRight(s) ==
    IF s # << >> /\ IsSpace(s[Len(s)])
    THEN TrimRight(SubSeq(s, 1, Len(s) - 1))
    ELSE s

\* F(e) with e evaluated once and named: where TLC evaluates the definitions
\* of a LET and the arguments of an operator at each use (as it does under
\* ENABLED), a bound variable holds a value
Bind(e, F(_)) == CHOOSE r \in { F(x) : x \in {e} } : TRUE

Trim(s) == Bind(TrimLeft(s), TrimRight)

ToLowerCase(s) == [i \in 1..Len(s) |-> LowerChar(s[i])]

\* the normal form hashText hashes
NormalizeText(s) == ToLowerCase(Trim(CollapseSpaces(s)))

\* h = (h * 31 + c) | 0 on a 32-bit integer kept as two 16-bit halves
HashStep(h, c) ==
    LET lo == h.lo * 31 + c
        hi == h.hi * 31 + (lo \div 65536)
    IN  [hi |-> hi % 65536, lo |-> lo % 65536]

RECURSIVE HashFrom(_, _)
HashFrom(h, t) ==
    IF t = << >> THEN h ELSE HashFrom(HashStep(h, Head(t)), Tail(t))

\* hashText(s): the 32-bit rolling hash of the normalised text
hashText(s) == HashFrom([hi |-> 0, lo |-> 0], NormalizeText(s))

(***************************************************************************)
(* Numbers as the request parser produces them: an integer or NaN          *)
(***************************************************************************)
Num(n) == [nan |-> FALSE, val |-> n]
NaN == [nan |-> TRUE, val |-> 0]

\* a >= b and a < b of JavaScript, a an integer, b a number that may be NaN
NumGe(a, b) == ~b.nan /\ a >= b.val
NumLt(a, b) == ~b.nan /\ a < b.val

\* body.topK as it arrives in the JSON body
RawNumbers ==
    { [kind |-> "absent", val |-> 0], [kind |-> "text", val |-> 0] }
    \cup { [kind |-> "num", val |-> n] : n \in {-1, 0, 1, 2, 3} }

\* Number(raw || dflt)
NumberOr(raw, dflt) ==
    IF raw.kind = "absent" \/ (raw.kind = "num" /\ raw.val = 0) THEN Num(dflt)
    ELSE IF raw.kind = "num" THEN Num(raw.val)
    ELSE NaN

ParseTopK(raw) == NumberOr(raw, DefaultTopK)
ParseTopN(raw) == NumberOr(raw, DefaultTopN)

(***************************************************************************)
(* The evidence store: sources and chunks                                  *)
(***************************************************************************)
\* Source rows: id, owning session (workspace)
SourceRows ==
    { [id |-> "s1", sessionId |-> "W1"],
      [id |-> "s2", sessionId |-> "W1"],
      [id |-> "s4", sessionId |-> "W1"],
      [id |-> "s3", sessionId |-> "W2"] }

\* SourceChunk rows: id, content, sourceId, metadata (JSONB, may be null).  c1/c2 and c3/c5 differ only in
\* case or white space; c6/c7 are different texts with the same 32-bit hash.
ChunkRows ==
    { [id |-> "c1", content |-> <<97, 32, 98>>,         sourceId |-> "s1",
       metadata |-> "page:1"],
      [id |-> "c2", content |-> <<65, 32, 32, 98, 32>>, sourceId |-> "s1",
       metadata |-> "page:2"],
      [id |-> "c3", content |-> <<98>>,                 sourceId |-> "s1",
       metadata |-> "null"],
      [id |-> "c4", content |-> <<97, 98>>,             sourceId |-> "s1",
       metadata |-> "page:4"],
      [id |-> "c5", content |-> <<66>>,                 sourceId |-> "s2",
       metadata |-> "row:5"],
      [id |-> "c6", content |-> <<97, 126>>,            sourceId |-> "s2",
       metadata |-> "null"],
      [id |-> "c7", content |-> <<98, 95>>,             sourceId |-> "s3",
       metadata |-> "row:7"] }

(***************************************************************************)
(* Diversity ranker, streaming copy (processStreamingQuery)                *)
(***************************************************************************)
EmptyRank == [deduped |-> << >>, seen |-> {}, perSourceCount |-> << >>]

\* perSourceCount.get(id) || 0
MapGet(m, k) == IF k \in DOMAIN m THEN m[k] ELSE 0
MapSet(m, k, v) == (k :> v) @@ m

\* first loop: skip seen fingerprints, accept below the per-source cap,
\* break once topK are accepted (the check follows the push)
RECURSIVE FirstPassFrom(_, _, _, _)
FirstPassFrom(retrieved, topK, i, st) ==
    IF i > Len(retrieved) THEN st
    ELSE LET r == retrieved[i]
             key == hashText(r.content)
         IN  IF key \in st.seen
             THEN FirstPassFrom(retrieved, topK, i + 1, st)
             ELSE LET cnt == MapGet(st.perSourceCount, r.sourceId)
                      st1 == IF cnt < maxPerSourceFirstPass
                             THEN [deduped |-> Append(st.deduped, r),
                                   seen |-> st.seen \cup {key},
                                   perSourceCount |->
                                       MapSet(st.perSourceCount, r.sourceId, cnt + 1)]
                             ELSE st
                  IN  IF NumGe(Len(st1.deduped), topK)
                      THEN st1
                      ELSE FirstPassFrom(retrieved, topK, i + 1, st1)

\* the first loop with the cap test `cnt <= maxPerSourceFirstPass`
FirstPassCapOffByOne(retrieved, topK) ==
    LET RECURSIVE Go(_, _)
        Go(i, st) ==
            IF i > Len(retrieved) THEN st
            ELSE LET r == retrieved[i]
                     key == hashText(r.content)
                 IN  IF key \in st.seen
                     THEN Go(i + 1, st)
                     ELSE LET cnt == MapGet(st.perSourceCount, r.sourceId)
                              st1 == IF cnt <= maxPerSourceFirstPass
                                     THEN [deduped |-> Append(st.deduped, r),
                                           seen |-> st.seen \cup {key},
                                           perSourceCount |->
                                               MapSet(st.perSourceCount, r.sourceId, cnt + 1)]
                                     ELSE st
                          IN  IF NumGe(Len(st1.deduped), topK)
                              THEN st1
                              ELSE Go(i + 1, st1)
    IN  Go(1, EmptyRank)

FirstPass(retrieved, topK) == FirstPassFrom(retrieved, topK, 1, EmptyRank)

\* second loop: backfill, ignoring the per-source cap
RECURSIVE SecondPassFrom(_, _, _, _)
SecondPassFrom(retrieved, topK, i, st) ==
    IF i > Len(retrieved) \/ NumGe(Len(st.deduped), topK) THEN st
    ELSE LET r == retrieved[i]
             key == hashText(r.content)
         IN  IF key \in st.seen
             THEN SecondPassFrom(retrieved, topK, i + 1, st)
             ELSE SecondPassFrom(retrieved, topK, i + 1,
                      [st EXCEPT !.deduped = Append(st.deduped, r),
                                 !.seen = st.seen \cup {key}])

\* the second loop without `if (seen.has(key)) continue`
SecondPassNoSeenCheck(retrieved, topK, st) ==
    LET RECURSIVE Go(_, _)
        Go(i, s) ==
            IF i > Len(retrieved) \/ NumGe(Len(s.deduped), topK) THEN s
            ELSE Go(i + 1, [s EXCEPT !.deduped = Append(s.deduped, retrieved[i])])
    IN  IF NumLt(Len(st.deduped), topK) THEN Go(1, st) ELSE st

\* a second loop that walks the candidates from the last to the first
SecondPassFromTheEnd(retrieved, topK, st) ==
    IF NumLt(Len(st.deduped), topK)
    THEN SecondPassFrom([i \in DOMAIN retrieved |-> retrieved[Len(retrieved) + 1 - i]],
                        topK, 1, st)
    ELSE st

SecondPass(retrieved, topK, st) ==
    IF NumLt(Len(st.deduped), topK)
    THEN SecondPassFrom(retrieved, topK, 1, st)
    ELSE st

RankStreaming(retrieved, topK) ==
    SecondPass(retrieved, topK, FirstPass(retrieved, topK)).deduped

(***************************************************************************)
(* Diversity ranker, one-shot copy (processNonStreamingQuery)              *)
(***************************************************************************)
RECURSIVE FirstPassNSFrom(_, _, _, _)
FirstPassNSFrom(retrieved, topK, i, st) ==
    IF i > Len(retrieved) THEN st
    ELSE LET r == retrieved[i]
             key == hashText(r.content)
         IN  IF key \in st.seen
             THEN FirstPassNSFrom(retrieved, topK, i + 1, st)
             ELSE LET cnt == MapGet(st.perSourceCount, r.sourceId)
                      st1 == IF cnt < maxPerSourceFirstPass
                             THEN [deduped |-> Append(st.deduped, r),
                                   seen |-> st.seen \cup {key},
                                   perSourceCount |->
                                       MapSet(st.perSourceCount, r.sourceId, cnt + 1)]
                             ELSE st
                  IN  IF NumGe(Len(st1.deduped), topK)
                      THEN st1
                      ELSE FirstPassNSFrom(retrieved, topK, i + 1, st1)

\* a first loop that records the fingerprint before the per-source cap test
FirstPassNSSeenBeforeCap(retrieved, topK) ==
    LET RECURSIVE Go(_, _)
        Go(i, st) ==
            IF i > Len(retrieved) THEN st
            ELSE LET r == retrieved[i]
                     key == hashText(r.content)
                 IN  IF key \in st.seen
                     THEN Go(i + 1, st)
                     ELSE LET cnt == MapGet(st.perSourceCount, r.sourceId)
                              st1 == IF cnt < maxPerSourceFirstPass
                                     THEN [deduped |-> Append(st.deduped, r),
                                           seen |-> st.seen \cup {key},
                                           perSourceCount |->
                                               MapSet(st.perSourceCount, r.sourceId, cnt + 1)]
                                     ELSE [st EXCEPT !.seen = st.seen \cup {key}]
                          IN  IF NumGe(Len(st1.deduped), topK)
                              THEN st1
                              ELSE Go(i + 1, st1)
    IN  Go(1, EmptyRank)

FirstPassNS(retrieved, topK) == FirstPassNSFrom(retrieved, topK, 1, EmptyRank)

RECURSIVE SecondPassNSFrom(_, _, _, _)
SecondPassNSFrom(retrieved, topK, i, st) ==
    IF i > Len(retrieved) \/ NumGe(Len(st.deduped), topK) THEN st
    ELSE LET r == retrieved[i]
             key == hashText(r.content)
         IN  IF key \in st.seen
             THEN SecondPassNSFrom(retrieved, topK, i + 1, st)
             ELSE SecondPassNSFrom(retrieved, topK, i + 1,
                      [st EXCEPT !.deduped = Append(st.deduped, r),
                                 !.seen = st.seen \cup {key}])

\* the second loop without the `deduped.length < topK` guard and break
SecondPassNSAlways(retrieved, topK, st) ==
    LET RECURSIVE Go(_, _)
        Go(i, s) ==
            IF i > Len(retrieved) THEN s
            ELSE LET r == retrieved[i]
                     key == hashText(r.content)
                 IN  IF key \in s.seen
                     THEN Go(i + 1, s)
                     ELSE Go(i + 1, [s EXCEPT !.deduped = Append(s.deduped, r),
                                              !.seen = s.seen \cup {key}])
    IN  Go(1, st)

SecondPassNS(retrieved, topK, st) ==
    IF NumLt(Len(st.deduped), topK)
    THEN SecondPassNSFrom(retrieved, topK, 1, st)
    ELSE st

RankOneShot(retrieved, topK) ==
    SecondPassNS(retrieved, topK, FirstPassNS(retrieved, topK)).deduped

(***************************************************************************)
(* Request parsing (POST)                                                  *)
(***************************************************************************)
Hello == <<104, 101, 108, 108, 111>>
HowDoIDoX == <<72, 111, 119, 32, 100, 111, 32, 73, 32, 100, 111, 32, 88, 63>>

\* the alternatives of the SMALL_TALK regular expression
SmallTalkPrefixes ==
    { <<104, 105>>,
      <<104, 101, 108, 108, 111>>,
      <<104, 101, 121>>,
      <<104, 111, 119, 32, 97, 114, 101, 32, 121, 111, 117>>,
      <<119, 104, 97, 116, 39, 115, 32, 117, 112>>,
      <<103, 111, 111, 100, 32, 109, 111, 114, 110, 105, 110, 103>>,
      <<103, 111, 111, 100, 32, 101, 118, 101, 110, 105, 110, 103>>,
      <<103, 111, 111, 100, 32, 97, 102, 116, 101, 114, 110, 111, 111, 110>> }

IsPrefix(p, s) == Len(p) <= Len(s) /\ SubSeq(s, 1, Len(p)) = p

\* SMALL_TALK.test(query): anchored at the start, case-insensitive
SMALL_TALK(q) == \E p \in SmallTalkPrefixes : IsPrefix(p, ToLowerCase(q))

\* body.selectedSources ?? body.sourceId: absent, an array, or one string
\* (kept in val as a one-element sequence)
RawSelections ==
    { [kind |-> "absent", val |-> << >>],
      [kind |-> "array",  val |-> <<"s1">>],
      [kind |-> "single", val |-> <<"s2">>],
      [kind |-> "array",  val |-> <<"s4">>],
      [kind |-> "array",  val |-> <<"s3">>] }

normalizeArray(raw) ==
    IF raw.kind = "absent" THEN << >>
    ELSE IF raw.kind = "array" THEN raw.val
    ELSE <<raw.val[1]>>

\* the JSON bodies the model posts
Bodies ==
    [ sessionId : {"", "W0", "W1"},
      query : {<< >>, Hello, HowDoIDoX},
      selectedSources : RawSelections,
      streaming : BOOLEAN,
      topK : { r \in RawNumbers : r.kind = "absent" \/ (r.kind = "num" /\ r.val = 1) },
      topN : { r \in RawNumbers : r.kind = "absent" \/ (r.kind = "num" /\ r.val = 2) } ]

ParseBody(body) ==
    [ sessionId |-> body.sessionId,
      query |-> body.query,
      selectedSources |-> normalizeArray(body.selectedSources),
      streaming |-> body.streaming,
      topK |-> ParseTopK(body.topK),
      topN |-> ParseTopN(body.topN) ]

NoReq ==
    [ sessionId |-> "", query |-> << >>, selectedSources |-> << >>,
      streaming |-> FALSE, topK |-> Num(0), topN |-> Num(0) ]

(***************************************************************************)
(* JavaScript string operations used by the answer path                    *)
(***************************************************************************)
\* the concatenation of a sequence of strings
RECURSIVE Flatten(_)
Flatten(ss) == IF ss = << >> THEN << >> ELSE Head(ss) \o Flatten(Tail(ss))

\* Array.prototype.join(sep)
RECURSIVE Join(_, _)
Join(ss, sep) ==
    IF ss = << >> THEN << >>
    ELSE IF Len(ss) = 1 THEN ss[1]
    ELSE ss[1] \o sep \o Join(Tail(ss), sep)

\* does p occur in s at position i (1-based)
MatchesAt(s, i, p) ==
    /\ i >= 1
    /\ i + Len(p) - 1 <= Len(s)
    /\ \A k \in 1..Len(p) : s[i + k - 1] = p[k]

\* String.prototype.includes
Includes(s, p) == \E i \in 1..(Len(s) + 1) : MatchesAt(s, i, p)

\* \w of the regular expressions: [A-Za-z0-9_]
IsWordChar(c) ==
    \/ (c >= 48 /\ c <= 57)
    \/ (c >= 65 /\ c <= 90)
    \/ (c >= 97 /\ c <= 122)
    \/ c = 95

\* \b at the gap before position i (between s[i-1] and s[i])
WordBoundary(s, i) ==
    LET before == i > 1 /\ i - 1 <= Len(s) /\ IsWordChar(s[i - 1])
        after == i >= 1 /\ i <= Len(s) /\ IsWordChar(s[i])
    IN  before # after

\* the index of the first character at or after i that is not white space
RECURSIVE SkipSpaces(_, _)
SkipSpaces(s, i) ==
    IF i <= Len(s) /\ IsSpace(s[i]) THEN SkipSpaces(s, i + 1) ELSE i

\* the decimal digits of a positive integer (template literal `${i + 1}`)
RECURSIVE Decimal(_)
Decimal(n) ==
    IF n < 10 THEN <<48 + n>> ELSE Decimal(n \div 10) \o <<48 + (n % 10)>>

(***************************************************************************)
(* enhanceResponse (src/lib/prompts.ts)                                    *)
(***************************************************************************)
\* the alternatives of the first replace, in the order of the expression:
\* Well, | So, | Basically, | In essence, | To summarize, |
\* Based on the context, | According to the sources, |
\* From the provided information,
FillerOpeners ==
    << <<87, 101, 108, 108, 44>>,
       <<83, 111, 44>>,
       <<66, 97, 115, 105, 99, 97, 108, 108, 121, 44>>,
       <<73, 110, 32, 101, 115, 115, 101, 110, 99, 101, 44>>,
       <<84, 111, 32, 115, 117, 109, 109, 97, 114, 105, 122, 101, 44>>,
       <<66, 97, 115, 101, 100, 32, 111, 110, 32, 116, 104, 101, 32, 99, 111,
         110, 116, 101, 120, 116, 44>>,
       <<65, 99, 99, 111, 114, 100, 105, 110, 103, 32, 116, 111, 32, 116,
         104, 101, 32, 115, 111, 117, 114, 99, 101, 115, 44>>,
       <<70, 114, 111, 109, 32, 116, 104, 101, 32, 112, 114, 111, 118, 105,
         100, 101, 100, 32, 105, 110, 102, 111, 114, 109, 97, 116, 105, 111,
         110, 44>> >>

\* As I mentioned | Like I said | As we can see | It's worth noting that |
\* It should be noted that
FillerPhrases ==
    << <<65, 115, 32, 73, 32, 109, 101, 110, 116, 105, 111, 110, 101, 100>>,
       <<76, 105, 107, 101, 32, 73, 32, 115, 97, 105, 100>>,
       <<65, 115, 32, 119, 101, 32, 99, 97, 110, 32, 115, 101, 101>>,
       <<73, 116, 39, 115, 32, 119, 111, 114, 116, 104, 32, 110, 111, 116,
         105, 110, 103, 32, 116, 104, 97, 116>>,
       <<73, 116, 32, 115, 104, 111, 117, 108, 100, 32, 98, 101, 32, 110,
         111, 116, 101, 100, 32, 116, 104, 97, 116>> >>

\* In other words | That is to say | Put simply
RestatementPhrases ==
    << <<73, 110, 32, 111, 116, 104, 101, 114, 32, 119, 111, 114, 100, 115>>,
       <<84, 104, 97, 116, 32, 105, 115, 32, 116, 111, 32, 115, 97, 121>>,
       <<80, 117, 116, 32, 115, 105, 109, 112, 108, 121>> >>

\* the alternatives, lower-cased (the expressions carry the i flag)
LowerAll(alts) == [a \in DOMAIN alts |-> ToLowerCase(alts[a])]

\* the first of the alternatives that occurs in lower-cased text at i, its
\* index; 0 when none does
FirstAlternativeAt(lower, i, alts) ==
    LET hits == { a \in DOMAIN alts : MatchesAt(lower, i, alts[a]) }
    IN  IF hits = {} THEN 0
        ELSE CHOOSE a \in hits : \A b \in hits : a <= b

\* .replace(/^(Well,|...)\s*/i, ""): drop one opener at the start and the
\* white space after it
StripOpener(s) ==
    LET a == FirstAlternativeAt(ToLowerCase(s), 1, LowerAll(FillerOpeners))
    IN  IF a = 0 THEN s
        ELSE LET next == SkipSpaces(s, Len(FillerOpeners[a]) + 1)
             IN  SubSeq(s, next, Len(s))

\* .replace(/\b(p1|p2|...)\b/gi, ""): drop every occurrence that stands
\* between word boundaries, scanning from the left
RECURSIVE RemovePhrasesFrom(_, _, _, _)
RemovePhrasesFrom(s, lower, i, phrases) ==
    IF i > Len(s) THEN << >>
    ELSE LET hits == { a \in DOMAIN phrases :
                          /\ lower[i] = phrases[a][1]
                          /\ MatchesAt(lower, i, phrases[a])
                          /\ WordBoundary(s, i)
                          /\ WordBoundary(s, i + Len(phrases[a])) }
         IN  IF hits = {}
             THEN <<s[i]>> \o RemovePhrasesFrom(s, lower, i + 1, phrases)
             ELSE Bind(i + Len(phrases[CHOOSE x \in hits : \A y \in hits : x <= y]),
                       LAMBDA next : RemovePhrasesFrom(s, lower, next, phrases))

RemovePhrases(s, phrases) ==
    Bind(ToLowerCase(s), LAMBDA lower :
        RemovePhrasesFrom(s, lower, 1, LowerAll(phrases)))

\* .replace(/\s{2,}/g, " "): a run of two or more white-space characters
\* becomes one blank; a single one stays as it is
RECURSIVE SqueezeSpacesFrom(_, _)
SqueezeSpacesFrom(s, i) ==
    IF i > Len(s) THEN << >>
    ELSE IF IsSpace(s[i])
         THEN Bind(SkipSpaces(s, i), LAMBDA next :
                  IF next - i >= 2
                  THEN <<32>> \o SqueezeSpacesFrom(s, next)
                  ELSE <<s[i]>> \o SqueezeSpacesFrom(s, i + 1))
         ELSE <<s[i]>> \o SqueezeSpacesFrom(s, i + 1)

SqueezeSpaces(s) == SqueezeSpacesFrom(s, 1)

IsSentenceEnd(c) == c \in {46, 33, 63}

IsLowerLetter(c) == c >= 97 /\ c <= 122

\* .replace(/([.!?])\s*([a-z])/g, (m, p, l) => `${p} ${l.toUpperCase()}`)
RECURSIVE CapitalizeSentencesFrom(_, _)
CapitalizeSentencesFrom(s, i) ==
    IF i > Len(s) THEN << >>
    ELSE IF IsSentenceEnd(s[i])
         THEN Bind(SkipSpaces(s, i + 1), LAMBDA next :
                  IF next <= Len(s) /\ IsLowerLetter(s[next])
                  THEN <<s[i], 32, s[next] - 32>>
                           \o CapitalizeSentencesFrom(s, next + 1)
                  ELSE <<s[i]>> \o CapitalizeSentencesFrom(s, i + 1))
         ELSE <<s[i]>> \o CapitalizeSentencesFrom(s, i + 1)

CapitalizeSentences(s) == CapitalizeSentencesFrom(s, 1)

\* .replace(/([^.!?])\s*$/, "$1."): the leftmost character that is not a
\* sentence end and has only white space after it keeps its place, and what
\* follows it becomes a full stop
EnsureSentenceEnd(s) ==
    LET hits == { i \in DOMAIN s :
                    ~IsSentenceEnd(s[i]) /\ SkipSpaces(s, i + 1) > Len(s) }
    IN  IF hits = {} THEN s
        ELSE LET i == CHOOSE x \in hits : \A y \in hits : x <= y
             IN  SubSeq(s, 1, i) \o <<46>>

enhanceResponse(rawResponse) ==
    Bind(rawResponse, LAMBDA raw :
    Bind(StripOpener(raw), LAMBDA stripped :
    Bind(RemovePhrases(stripped, FillerPhrases), LAMBDA unfilled :
    Bind(RemovePhrases(unfilled, RestatementPhrases), LAMBDA plain :
    Bind(SqueezeSpaces(plain), LAMBDA squeezed :
    Bind(CapitalizeSentences(squeezed), LAMBDA sentences :
    Bind(EnsureSentenceEnd(sentences), Trim)))))))

(***************************************************************************)
(* JSON.parse on the documents a model output can hold: objects, arrays,   *)
(* strings without escapes, non-negative integers, true, false, null       *)
(***************************************************************************)
\* a JSON value: t is its type, s the text of a string or number, a the
\* elements of an array or the key/value pairs of an object
JStr(s) == [t |-> "str", s |-> s, a |-> << >>]
JNum(s) == [t |-> "num", s |-> s, a |-> << >>]
JArr(a) == [t |-> "arr", s |-> << >>, a |-> a]
JObj(a) == [t |-> "obj", s |-> << >>, a |-> a]
JLit(t) == [t |-> t, s |-> << >>, a |-> << >>]
JUndefined == JLit("undefined")

\* the result of a parsing step: the value and the index after it
JFail == [ok |-> FALSE, val |-> JUndefined, next |-> 0]
JOk(v, next) == [ok |-> TRUE, val |-> v, next |-> next]

IsJsonSpace(c) == c \in {9, 10, 13, 32}

RECURSIVE JsonSkip(_, _)
JsonSkip(s, i) ==
    IF i <= Len(s) /\ IsJsonSpace(s[i]) THEN JsonSkip(s, i + 1) ELSE i

IsDigit(c) == c >= 48 /\ c <= 57

RECURSIVE DigitsEnd(_, _)
DigitsEnd(s, i) == IF i <= Len(s) /\ IsDigit(s[i]) THEN DigitsEnd(s, i + 1) ELSE i

\* a string literal opening at i: up to the next quote; a control character
\* or a backslash escape is not accepted
JsonString(s, i) ==
    IF i > Len(s) \/ s[i] # 34 THEN JFail
    ELSE LET closing == { j \in (i + 1)..Len(s) : s[j] = 34 }
         IN  IF closing = {} THEN JFail
             ELSE LET j == CHOOSE x \in closing : \A y \in closing : x <= y
                      body == SubSeq(s, i + 1, j - 1)
                  IN  IF \E k \in DOMAIN body : body[k] < 32 \/ body[k] = 92
                      THEN JFail
                      ELSE JOk(JStr(body), j + 1)

\* a number opening at i: digits without a leading zero
JsonNumber(s, i) ==
    LET e == DigitsEnd(s, i)
    IN  IF e = i \/ (e - i > 1 /\ s[i] = 48) THEN JFail
        ELSE JOk(JNum(SubSeq(s, i, e - 1)), e)

RECURSIVE JsonValue(_, _)
RECURSIVE JsonElements(_, _, _)
RECURSIVE JsonMembers(_, _, _)

\* the elements of an array after "[" or after a comma
JsonElements(s, i, acc) ==
    Bind(JsonValue(s, JsonSkip(s, i)), LAMBDA v :
        IF ~v.ok THEN JFail
        ELSE Bind(JsonSkip(s, v.next), LAMBDA k :
                 IF k > Len(s) THEN JFail
                 ELSE IF s[k] = 93 THEN JOk(JArr(Append(acc, v.val)), k + 1)
                 ELSE IF s[k] = 44
                 THEN Bind(Append(acc, v.val),
                           LAMBDA elements : JsonElements(s, k + 1, elements))
                 ELSE JFail))

\* the members of an object after "{" or after a comma
JsonMembers(s, i, acc) ==
    Bind(JsonString(s, JsonSkip(s, i)), LAMBDA key :
        IF ~key.ok THEN JFail
        ELSE Bind(JsonSkip(s, key.next), LAMBDA c :
                 IF c > Len(s) \/ s[c] # 58 THEN JFail
                 ELSE Bind(JsonValue(s, JsonSkip(s, c + 1)), LAMBDA v :
                          IF ~v.ok THEN JFail
                          ELSE Bind(JsonSkip(s, v.next), LAMBDA k :
                               Bind(Append(acc, [k |-> key.val.s, v |-> v.val]),
                                    LAMBDA members :
                                   IF k > Len(s) THEN JFail
                                   ELSE IF s[k] = 125
                                   THEN JOk(JObj(members), k + 1)
                                   ELSE IF s[k] = 44
                                   THEN JsonMembers(s, k + 1, members)
                                   ELSE JFail)))))

\* the value opening at i
JsonValue(s, at) ==
    Bind(at, LAMBDA i :
    IF i > Len(s) THEN JFail
    ELSE IF s[i] = 34 THEN JsonString(s, i)
    ELSE IF IsDigit(s[i]) THEN JsonNumber(s, i)
    ELSE IF s[i] = 91
         THEN LET k == JsonSkip(s, i + 1)
              IN  IF k <= Len(s) /\ s[k] = 93 THEN JOk(JArr(<< >>), k + 1)
                  ELSE JsonElements(s, i + 1, << >>)
    ELSE IF s[i] = 123
         THEN LET k == JsonSkip(s, i + 1)
              IN  IF k <= Len(s) /\ s[k] = 125 THEN JOk(JObj(<< >>), k + 1)
                  ELSE JsonMembers(s, i + 1, << >>)
    ELSE IF MatchesAt(s, i, <<116, 114, 117, 101>>) THEN JOk(JLit("true"), i + 4)
    ELSE IF MatchesAt(s, i, <<102, 97, 108, 115, 101>>) THEN JOk(JLit("false"), i + 5)
    ELSE IF MatchesAt(s, i, <<110, 117, 108, 108>>) THEN JOk(JLit("null"), i + 4)
    ELSE JFail)

\* JSON.parse(s): ok is FALSE where JSON.parse throws
JsonParse(text) ==
    Bind(text, LAMBDA s :
    Bind(JsonValue(s, JsonSkip(s, 1)), LAMBDA v :
        IF v.ok /\ JsonSkip(s, v.next) > Len(s)
        THEN [ok |-> TRUE, val |-> v.val]
        ELSE [ok |-> FALSE, val |-> JUndefined]))

\* obj.key, obj?.key: the value of the last member of that name, undefined
\* when there is none or obj is not an object
Member(obj, key) ==
    LET hits == { i \in DOMAIN obj.a : obj.t = "obj" /\ obj.a[i].k = key }
    IN  IF hits = {} THEN JUndefined
        ELSE obj.a[CHOOSE i \in hits : \A j \in hits : j <= i].v

\* the truth value JavaScript gives a JSON value
Truthy(v) ==
    CASE v.t = "str" -> v.s # << >>
      [] v.t = "num" -> v.s # <<48>>
      [] v.t \in {"arr", "obj", "true"} -> TRUE
      [] OTHER -> FALSE

\* String(v)
RECURSIVE JsString(_)
JsString(v) ==
    CASE v.t = "str" -> v.s
      [] v.t = "num" -> v.s
      [] v.t = "true" -> <<116, 114, 117, 101>>
      [] v.t = "false" -> <<102, 97, 108, 115, 101>>
      [] v.t = "null" -> <<110, 117, 108, 108>>
      [] v.t = "undefined" -> <<117, 110, 100, 101, 102, 105, 110, 101, 100>>
      [] v.t = "obj" -> <<91, 111, 98, 106, 101, 99, 116, 32, 79, 98, 106,
                          101, 99, 116, 93>>
      [] v.t = "arr" ->
            Join([i \in DOMAIN v.a |->
                     IF v.a[i].t \in {"null", "undefined"} THEN << >>
                     ELSE JsString(v.a[i])],
                 <<44>>)

\* Array.isArray(v)
IsArray(v) == v.t = "arr"

AnswerKey == <<97, 110, 115, 119, 101, 114>>
FollowupsKey == <<102, 111, 108, 108, 111, 119, 117, 112, 115>>

SeqToSet(s) == { s[i] : i \in DOMAIN s }

Take(s, n) == SubSeq(s, 1, IF n < Len(s) THEN n ELSE Len(s))

(***************************************************************************)
(* Follow-ups (src/lib/prompts.ts) and the canned texts of the route       *)
(***************************************************************************)
\* context.toLowerCase().replace(/[^\w\s]/g, " ")
KeyTermText(context) ==
    [i \in DOMAIN context |->
        IF IsWordChar(context[i]) \/ IsSpace(context[i])
        THEN LowerChar(context[i]) ELSE 32]

\* .split(/\s+/): the pieces between runs of white space
RECURSIVE SplitSpacesFrom(_, _, _)
SplitSpacesFrom(s, i, cur) ==
    IF i > Len(s) THEN <<cur>>
    ELSE IF IsSpace(s[i])
         THEN <<cur>> \o Bind(SkipSpaces(s, i),
                               LAMBDA next : SplitSpacesFrom(s, next, << >>))
         ELSE SplitSpacesFrom(s, i + 1, Append(cur, s[i]))

SplitSpaces(text) == Bind(text, LAMBDA s : SplitSpacesFrom(s, 1, << >>))

\* the words of the stop list that are longer than four characters (the
\* shorter ones never pass the length test)
StopWords == { <<119, 111, 117, 108, 100>>, <<99, 111, 117, 108, 100>>, <<115, 104, 111, 117, 108, 100>> }

IsKeyTerm(word) == Len(word) > 4 /\ word \notin StopWords

\* extractKeyTerms(context)[0]: the most frequent key term, the earliest
\* one among equals; << >> when there is none.  (Terms made of digits only,
\* which an object enumerates first, do not occur in the store's texts.)
FirstKeyTerm(context) ==
    Bind(SelectSeq(SplitSpaces(KeyTermText(context)), IsKeyTerm), LAMBDA words :
    LET count(w) == Cardinality({ i \in DOMAIN words : words[i] = w })
        first(w) == CHOOSE i \in DOMAIN words :
                        words[i] = w /\ \A j \in 1..(i - 1) : words[j] # w
    IN  IF words = << >> THEN << >>
        ELSE LET best == CHOOSE i \in DOMAIN words :
                            /\ first(words[i]) = i
                            /\ \A j \in DOMAIN words :
                                  \/ count(words[j]) < count(words[i])
                                  \/ /\ count(words[j]) = count(words[i])
                                     /\ first(words[j]) >= i
                 IN  words[best])

How == <<104, 111, 119>>
What == <<119, 104, 97, 116>>
Why == <<119, 104, 121>>
When == <<119, 104, 101, 110>>
Timing == <<116, 105, 109, 105, 110, 103>>
ThisProcess == <<116, 104, 105, 115, 32, 112, 114, 111, 99, 101, 115, 115>>

\* What tools are recommended for ${contextTerms[0] || "this process"}?
\* What are common challenges when implementing this?
\* Can you show me examples from the sources?
HowFollowups(term) ==
    << <<87, 104, 97, 116, 32, 116, 111, 111, 108, 115, 32, 97, 114, 101, 32,
         114, 101, 99, 111, 109, 109, 101, 110, 100, 101, 100, 32, 102, 111,
         114, 32>>
           \o (IF term = << >> THEN ThisProcess ELSE term) \o <<63>>,
       <<87, 104, 97, 116, 32, 97, 114, 101, 32, 99, 111, 109, 109, 111, 110,
         32, 99, 104, 97, 108, 108, 101, 110, 103, 101, 115, 32, 119, 104,
         101, 110, 32, 105, 109, 112, 108, 101, 109, 101, 110, 116, 105, 110,
         103, 32, 116, 104, 105, 115, 63>>,
       <<67, 97, 110, 32, 121, 111, 117, 32, 115, 104, 111, 119, 32, 109,
         101, 32, 101, 120, 97, 109, 112, 108, 101, 115, 32, 102, 114, 111,
         109, 32, 116, 104, 101, 32, 115, 111, 117, 114, 99, 101, 115, 63>> >>

\* How does this compare to alternative approaches?
\* What are the key benefits and limitations?
\* What implementation steps should I consider?
WhatFollowups ==
    << <<72, 111, 119, 32, 100, 111, 101, 115, 32, 116, 104, 105, 115, 32,
         99, 111, 109, 112, 97, 114, 101, 32, 116, 111, 32, 97, 108, 116,
         101, 114, 110, 97, 116, 105, 118, 101, 32, 97, 112, 112, 114, 111,
         97, 99, 104, 101, 115, 63>>,
       <<87, 104, 97, 116, 32, 97, 114, 101, 32, 116, 104, 101, 32, 107, 101,
         121, 32, 98, 101, 110, 101, 102, 105, 116, 115, 32, 97, 110, 100,
         32, 108, 105, 109, 105, 116, 97, 116, 105, 111, 110, 115, 63>>,
       <<87, 104, 97, 116, 32, 105, 109, 112, 108, 101, 109, 101, 110, 116,
         97, 116, 105, 111, 110, 32, 115, 116, 101, 112, 115, 32, 115, 104,
         111, 117, 108, 100, 32, 73, 32, 99, 111, 110, 115, 105, 100, 101,
         114, 63>> >>

\* What evidence supports this approach?
\* How do other organizations handle this?
\* What are the potential risks or drawbacks?
WhyFollowups ==
    << <<87, 104, 97, 116, 32, 101, 118, 105, 100, 101, 110, 99, 101, 32,
         115, 117, 112, 112, 111, 114, 116, 115, 32, 116, 104, 105, 115, 32,
         97, 112, 112, 114, 111, 97, 99, 104, 63>>,
       <<72, 111, 119, 32, 100, 111, 32, 111, 116, 104, 101, 114, 32, 111,
         114, 103, 97, 110, 105, 122, 97, 116, 105, 111, 110, 115, 32, 104,
         97, 110, 100, 108, 101, 32, 116, 104, 105, 115, 63>>,
       <<87, 104, 97, 116, 32, 97, 114, 101, 32, 116, 104, 101, 32, 112, 111,
         116, 101, 110, 116, 105, 97, 108, 32, 114, 105, 115, 107, 115, 32,
         111, 114, 32, 100, 114, 97, 119, 98, 97, 99, 107, 115, 63>> >>

\* What factors determine the right timing?
\* What preparation is needed beforehand?
\* How do I know if conditions are right?
WhenFollowups ==
    << <<87, 104, 97, 116, 32, 102, 97, 99, 116, 111, 114, 115, 32, 100, 101,
         116, 101, 114, 109, 105, 110, 101, 32, 116, 104, 101, 32, 114, 105,
         103, 104, 116, 32, 116, 105, 109, 105, 110, 103, 63>>,
       <<87, 104, 97, 116, 32, 112, 114, 101, 112, 97, 114, 97, 116, 105,
         111, 110, 32, 105, 115, 32, 110, 101, 101, 100, 101, 100, 32, 98,
         101, 102, 111, 114, 101, 104, 97, 110, 100, 63>>,
       <<72, 111, 119, 32, 100, 111, 32, 73, 32, 107, 110, 111, 119, 32, 105,
         102, 32, 99, 111, 110, 100, 105, 116, 105, 111, 110, 115, 32, 97,
         114, 101, 32, 114, 105, 103, 104, 116, 63>> >>

\* What related information is available in my sources?
\* How can I apply this knowledge practically?
\* What additional context should I consider?
DefaultFollowups ==
    << <<87, 104, 97, 116, 32, 114, 101, 108, 97, 116, 101, 100, 32, 105,
         110, 102, 111, 114, 109, 97, 116, 105, 111, 110, 32, 105, 115, 32,
         97, 118, 97, 105, 108, 97, 98, 108, 101, 32, 105, 110, 32, 109, 121,
         32, 115, 111, 117, 114, 99, 101, 115, 63>>,
       <<72, 111, 119, 32, 99, 97, 110, 32, 73, 32, 97, 112, 112, 108, 121,
         32, 116, 104, 105, 115, 32, 107, 110, 111, 119, 108, 101, 100, 103,
         101, 32, 112, 114, 97, 99, 116, 105, 99, 97, 108, 108, 121, 63>>,
       <<87, 104, 97, 116, 32, 97, 100, 100, 105, 116, 105, 111, 110, 97,
         108, 32, 99, 111, 110, 116, 101, 120, 116, 32, 115, 104, 111, 117,
         108, 100, 32, 73, 32, 99, 111, 110, 115, 105, 100, 101, 114, 63>> >>

generateStrategicFollowups(query, context) ==
    LET queryLower == ToLowerCase(query)
    IN  IF Includes(queryLower, How) THEN HowFollowups(FirstKeyTerm(context))
        ELSE IF Includes(queryLower, What) THEN WhatFollowups
        ELSE IF Includes(queryLower, Why) THEN WhyFollowups
        ELSE IF Includes(queryLower, When) \/ Includes(queryLower, Timing)
             THEN WhenFollowups
        ELSE DefaultFollowups

\* a list of strings as the JSON array the response carries
StringList(ss) == JArr([i \in DOMAIN ss |-> JStr(ss[i])])

\* Array.prototype.slice(0, n) of a JSON array
ArraySlice(v, n) == JArr(Take(v.a, n))

NoFollowups == JArr(<< >>)

\* the follow-ups of the General-Chat complete event:
\* What would you like to know more about?
\* How can I help you with your documents?
\* Do you have any specific questions about your sources?
GeneralFollowups ==
    << <<87, 104, 97, 116, 32, 119, 111, 117, 108, 100, 32, 121, 111, 117,
         32, 108, 105, 107, 101, 32, 116, 111, 32, 107, 110, 111, 119, 32,
         109, 111, 114, 101, 32, 97, 98, 111, 117, 116, 63>>,
       <<72, 111, 119, 32, 99, 97, 110, 32, 73, 32, 104, 101, 108, 112, 32,
         121, 111, 117, 32, 119, 105, 116, 104, 32, 121, 111, 117, 114, 32,
         100, 111, 99, 117, 109, 101, 110, 116, 115, 63>>,
       <<68, 111, 32, 121, 111, 117, 32, 104, 97, 118, 101, 32, 97, 110, 121,
         32, 115, 112, 101, 99, 105, 102, 105, 99, 32, 113, 117, 101, 115,
         116, 105, 111, 110, 115, 32, 97, 98, 111, 117, 116, 32, 121, 111,
         117, 114, 32, 115, 111, 117, 114, 99, 101, 115, 63>> >>

\* "I had trouble processing the response."
TroubleProcessing ==
    <<73, 32, 104, 97, 100, 32, 116, 114, 111, 117, 98, 108, 101, 32, 112,
      114, 111, 99, 101, 115, 115, 105, 110, 103, 32, 116, 104, 101, 32, 114,
      101, 115, 112, 111, 110, 115, 101, 46>>

\* "I had trouble processing the response. Please try again."
TroubleProcessingTryAgain ==
    <<73, 32, 104, 97, 100, 32, 116, 114, 111, 117, 98, 108, 101, 32, 112,
      114, 111, 99, 101, 115, 115, 105, 110, 103, 32, 116, 104, 101, 32, 114,
      101, 115, 112, 111, 110, 115, 101, 46, 32, 80, 108, 101, 97, 115, 101,
      32, 116, 114, 121, 32, 97, 103, 97, 105, 110, 46>>

\* "I couldn’t find that in your sources."
NotFoundDefault ==
    <<73, 32, 99, 111, 117, 108, 100, 110, 8217, 116, 32, 102, 105, 110, 100,
      32, 116, 104, 97, 116, 32, 105, 110, 32, 121, 111, 117, 114, 32, 115,
      111, 117, 114, 99, 101, 115, 46>>

\* "I couldn't find relevant information in the selected sources."
NotFoundInSelected ==
    <<73, 32, 99, 111, 117, 108, 100, 110, 39, 116, 32, 102, 105, 110, 100,
      32, 114, 101, 108, 101, 118, 97, 110, 116, 32, 105, 110, 102, 111, 114,
      109, 97, 116, 105, 111, 110, 32, 105, 110, 32, 116, 104, 101, 32, 115,
      101, 108, 101, 99, 116, 101, 100, 32, 115, 111, 117, 114, 99, 101, 115,
      46>>

\* "I couldn't find relevant information in your sources."
NotFoundInSources ==
    <<73, 32, 99, 111, 117, 108, 100, 110, 39, 116, 32, 102, 105, 110, 100,
      32, 114, 101, 108, 101, 118, 97, 110, 116, 32, 105, 110, 102, 111, 114,
      109, 97, 116, 105, 111, 110, 32, 105, 110, 32, 121, 111, 117, 114, 32,
      115, 111, 117, 114, 99, 101, 115, 46>>

(***************************************************************************)
(* Prompts                                                                 *)
(***************************************************************************)
\* deduped.map((r, i) => `(${i + 1}) ${r.content}`)
ContextItems(deduped) ==
    [i \in DOMAIN deduped |-> <<40>> \o Decimal(i) \o <<41, 32>> \o deduped[i].content]

\* .join("\n\n")
Context(deduped) == Join(ContextItems(deduped), <<10, 10>>)

\* the message list handed to the model: the system prompt by its name, the
\* user message by the template it is built from and the template's arguments
Messages(system, template, context, question) ==
    [system |-> system, template |-> template, context |-> context,
     question |-> question]

NoMessages == Messages("", "", << >>, << >>)

\* [system SYSTEM_GENERAL, user query]
GeneralMessages(query) == Messages("SYSTEM_GENERAL", "query", << >>, query)

\* [system SYSTEM_RAG_QA, user userRagQA(context, query)]
RagMessages(context, query) == Messages("SYSTEM_RAG_QA", "userRagQA", context, query)

\* [system SYSTEM_RAG_QA, user NO_RESULTS_COT_PROMPT with the query put in]
NoResultsMessages(query) ==
    Messages("SYSTEM_RAG_QA", "NO_RESULTS_COT_PROMPT", << >>, query)

(***************************************************************************)
(* Values of the running query                                             *)
(***************************************************************************)
\* let parsed = {answer: "I couldn’t find that in your sources.", followups: []}
DefaultParsed ==
    JObj(<< [k |-> AnswerKey, v |-> JStr(NotFoundDefault)],
            [k |-> FollowupsKey, v |-> JArr(<< >>)] >>)

NoRun ==
    [ userMsgId |-> 0, retrieved |-> << >>, deduped |-> << >>, citations |-> << >>,
      context |-> << >>, messages |-> NoMessages,
      stream |-> << >>, fullResponse |-> << >>, text |-> << >>,
      parsed |-> JUndefined, answer |-> << >>, followups |-> NoFollowups,
      assistantId |-> 0, task |-> "none" ]

NoResponse ==
    [ status |-> 0, error |-> "", stream |-> FALSE, answer |-> << >>,
      citations |-> << >>, followups |-> NoFollowups, chatMessage |-> 0,
      userMessage |-> 0 ]

\* a row of the Chat table (a create without citations stores none)
Turn(id, sessionId, role, message, citations) ==
    [id |-> id, sessionId |-> sessionId, role |-> role, message |-> message,
     citations |-> citations]

\* an event of the response stream
Ev(type, content, citations, chatMessage, followups) ==
    [type |-> type, content |-> content, citations |-> citations,
     chatMessage |-> chatMessage, followups |-> followups]

\* the Chat table before the request: an earlier exchange of the workspace
InitialLogs ==
    { << Turn(1, "W1", "user", Hello, << >>),
         Turn(2, "W1", "assistant", <<72, 105, 46>>, << >>) >> }

RkIdle ==
    [ phase |-> "off", cands |-> << >>, topK |-> Num(0),
      st |-> EmptyRank, pass1 |-> << >>, outS |-> << >>,
      stN |-> EmptyRank, pass1N |-> << >>, outN |-> << >> ]

(***************************************************************************)
(* Collaborators                                                           *)
(***************************************************************************)
\* the store's possible distance orders of the chunks (one per query vector)
Orderings ==
    { <<"c1", "c2", "c3", "c4", "c5", "c6", "c7">>,
      <<"c7", "c6", "c5", "c4", "c3", "c2", "c1">>,
      <<"c3", "c5", "c1", "c4", "c2", "c6", "c7">> }

ChunkById(id) == CHOOSE c \in ChunkRows : c.id = id

\* WHERE "sourceId" = ANY($1)   (explicit scope)
\* WHERE "sourceId" IN (SELECT id FROM "Source" WHERE "sessionId" = $1)
InScope(c, sessionId, selectedSources) ==
    IF Len(selectedSources) > 0
    THEN c.sourceId \in SeqToSet(selectedSources)
    ELSE \E s \in SourceRows : s.id = c.sourceId /\ s.sessionId = sessionId

\* ORDER BY embedding <-> $2 LIMIT $3
SearchRows(order, sessionId, selectedSources, topN) ==
    LET rows == [i \in DOMAIN order |-> ChunkById(order[i])]
        hit(c) == InScope(c, sessionId, selectedSources)
    IN  Take(SelectSeq(rows, hit), topN.val)

\* texts the model returns, each as the sequence of its deltas:
\*   no delta at all
\*   just plain text
\*   an empty delta, then " Well, ok fine. yes  "
\*   {"answer":"X [1]",   "followups":["a","b"]}
\*   Sure:    {"answer":"X [1]","followups":["a","b"]}    Bye
\*   {"answer":"X [1]"}
\*   {"followups":["a","b","c","d"]}
\*   } {
\*   {not json}
\*   {"answer":"X [1]","followups":[]}
LLMTexts ==
    { << >>,
      << <<106, 117, 115, 116, 32, 112, 108, 97, 105, 110, 32, 116, 101, 120,
           116>> >>,
      << << >>, <<32, 87, 101, 108, 108, 44, 32, 111, 107, 32, 102, 105, 110,
                  101, 46, 32, 121, 101, 115, 32, 32>> >>,
      << <<123, 34, 97, 110, 115, 119, 101, 114, 34, 58, 34, 88, 32, 91, 49,
           93, 34, 44>>, <<34, 102, 111, 108, 108, 111, 119, 117,
                                       112, 115, 34, 58, 91, 34, 97, 34, 44,
                                       34, 98, 34, 93, 125>> >>,
      << <<83, 117, 114, 101, 58, 32>>,
         <<123, 34, 97, 110, 115, 119, 101, 114, 34, 58, 34, 88, 32, 91, 49,
           93, 34, 44, 34, 102, 111, 108, 108, 111, 119, 117, 112, 115, 34,
           58, 91, 34, 97, 34, 44, 34, 98, 34, 93, 125>>,
         <<32, 66, 121, 101>> >>,
      << <<123, 34, 97, 110, 115, 119, 101, 114, 34, 58, 34, 88, 32, 91, 49,
           93, 34, 125>> >>,
      << <<123, 34, 102, 111, 108, 108, 111, 119, 117, 112, 115, 34, 58, 91,
           34, 97, 34, 44, 34, 98, 34, 44, 34, 99, 34, 44, 34, 100, 34, 93,
           125>> >>,
      << <<125, 32, 123>> >>,
      << <<123, 110, 111, 116, 32, 106, 115, 111, 110, 125>> >>,
      << <<123, 34, 97, 110, 115, 119, 101, 114, 34, 58, 34, 88, 32, 91, 49,
           93, 34, 44, 34, 102, 111, 108, 108, 111, 119, 117, 112, 115, 34,
           58, 91, 93, 125>> >> }

\* text.indexOf(c) and text.lastIndexOf(c), 1-based, 0 when absent
IndexOf(s, tok) ==
    IF \E i \in DOMAIN s : s[i] = tok
    THEN CHOOSE i \in DOMAIN s : s[i] = tok /\ \A j \in 1..(i - 1) : s[j] # tok
    ELSE 0

LastIndexOf(s, tok) ==
    IF \E i \in DOMAIN s : s[i] = tok
    THEN CHOOSE i \in DOMAIN s : s[i] = tok /\ \A j \in (i + 1)..Len(s) : s[j] # tok
    ELSE 0

\* String.prototype.slice(a, b) with 0-based arguments; a negative argument
\* counts from the end
JsSlice(s, a, b) ==
    LET norm(x) == IF x < 0 THEN (IF Len(s) + x < 0 THEN 0 ELSE Len(s) + x)
                   ELSE (IF x > Len(s) THEN Len(s) ELSE x)
        from == norm(a)
        to == norm(b)
    IN  IF from < to THEN SubSeq(s, from + 1, to) ELSE << >>

\* the brace slice text.slice(start, end + 1), start and end being 0-based
\* indexOf("{") and lastIndexOf("}") (-1 when absent)
BraceSlice(s) ==
    JsSlice(s, IndexOf(s, 123) - 1, (LastIndexOf(s, 125) - 1) + 1)

\* start !== -1 && end !== -1
HasBraces(s) == IndexOf(s, 123) # 0 /\ LastIndexOf(s, 125) # 0

\* r.metadata || {}
MetadataOrEmpty(metadata) == IF metadata = "null" THEN "{}" ELSE metadata

\* citations numbered from 0
CitationsFromZero(deduped) ==
    [i \in DOMAIN deduped |->
        [id |-> deduped[i].id, index |-> i - 1,
         metadata |-> MetadataOrEmpty(deduped[i].metadata),
         sourceId |-> deduped[i].sourceId]]

\* deduped.map((r, i) => ({id, index: i + 1, metadata, sourceId}))
Citations(deduped) ==
    [i \in DOMAIN deduped |->
        [id |-> deduped[i].id, index |-> i,
         metadata |-> MetadataOrEmpty(deduped[i].metadata),
         sourceId |-> deduped[i].sourceId]]

\* String(json?.answer || "")
AnswerOf(json) ==
    LET answer == Member(json, AnswerKey)
    IN  IF Truthy(answer) THEN JsString(answer) ELSE << >>

(***************************************************************************)
(* Initial state                                                           *)
(***************************************************************************)
Init ==
    /\ pc = "idle"
    /\ req = NoReq
    /\ log \in InitialLogs
    /\ events = << >>
    /\ writer = "none"
    /\ calls = << >>
    /\ response = NoResponse
    /\ run = NoRun
    /\ rk = RkIdle
    /\ SubsystemsOff

Called(c) == calls' = Append(calls, c)
Called2(c, d) == calls' = calls \o <<c, d>>

\* prisma.chat.create: the new row, appended to the table
ChatCreate(role, message, citations) ==
    Append(log, Turn(Len(log) + 1, req.sessionId, role, message, citations))

(***************************************************************************)
(* POST                                                                    *)
(***************************************************************************)
\* POST without the two 400 returns
POST_ReceiveNoValidation(body) ==
    /\ pc = "idle"
    /\ req' = ParseBody(body)
    /\ pc' = "persistUser"
    /\ UNCHANGED <<log, events, writer, calls, response, run, rk, subsystems>>

\* parse the body and validate it
POST_Receive(body) ==
    /\ pc = "idle"
    /\ req' = ParseBody(body)
    /\ IF body.sessionId = ""
       THEN /\ response' = [NoResponse EXCEPT !.status = 400,
                                              !.error = "sessionId required"]
            /\ pc' = "done"
       ELSE IF body.query = << >>
       THEN /\ response' = [NoResponse EXCEPT !.status = 400,
                                              !.error = "query required"]
            /\ pc' = "done"
       ELSE /\ response' = response
            /\ pc' = "persistUser"
    /\ UNCHANGED <<log, events, writer, calls, run, rk, subsystems>>

\* POST dispatching without storing the user message first
POST_CreateUserMsgLate(ok) ==
    /\ pc = "persistUser"
    /\ IF req.streaming
       THEN /\ writer' = "open"
            /\ response' = [NoResponse EXCEPT !.status = 200, !.stream = TRUE]
            /\ pc' = "s_start"
       ELSE /\ pc' = "n_start"
            /\ UNCHANGED <<writer, response>>
    /\ run' = [run EXCEPT !.task = IF req.streaming THEN "running" ELSE "none"]
    /\ UNCHANGED <<req, log, calls, events, rk, subsystems>>

\* store the user message, then start the streaming task or the one-shot path
POST_CreateUserMsg(ok) ==
    /\ pc = "persistUser"
    /\ IF ok
       THEN /\ log' = ChatCreate("user", req.query, << >>)
            /\ Called("chat.create:user")
            /\ run' = [run EXCEPT !.userMsgId = Len(log) + 1,
                                  !.task = IF req.streaming THEN "running" ELSE "none"]
            /\ IF req.streaming
               THEN /\ writer' = "open"
                    /\ response' = [NoResponse EXCEPT !.status = 200, !.stream = TRUE]
                    /\ pc' = "s_start"
               ELSE /\ pc' = "n_start"
                    /\ UNCHANGED <<writer, response>>
       ELSE /\ Called("chat.create:failed")
            /\ response' = [NoResponse EXCEPT !.status = 500, !.error = "Query failed"]
            /\ pc' = "done"
            /\ UNCHANGED <<log, run, writer>>
    /\ UNCHANGED <<req, events, rk, subsystems>>

(***************************************************************************)
(* processStreamingQuery                                                   *)
(***************************************************************************)
\* a mode test that reads the query only
useGeneralChatIgnoringScope == SMALL_TALK(req.query)

\* selectedSources.length === 0 && SMALL_TALK.test(query)
useGeneralChat == Len(req.selectedSources) = 0 /\ SMALL_TALK(req.query)

\* await writer.write(ev): the event is accepted while the writer is open; a
\* write on an errored writer rejects and control passes to `failPc`
Write(ev, okPc, failPc) ==
    IF writer = "open"
    THEN /\ events' = Append(events, ev)
         /\ pc' = okPc
    ELSE /\ events' = events
         /\ pc' = failPc

\* the caller goes away: the readable side is cancelled, the writer errors
ClientDisconnect ==
    /\ writer = "open"
    /\ writer' = "errored"
    /\ UNCHANGED <<pc, req, log, events, calls, response, run, rk, subsystems>>

\* the first write: `thinking` in General-Chat mode, `searching` otherwise
S_Start ==
    /\ pc = "s_start"
    /\ IF useGeneralChat
       THEN Write(Ev("thinking", << >>, << >>, 0, NoFollowups), "sg_open", "s_catch")
       ELSE Write(Ev("searching", << >>, << >>, 0, NoFollowups), "s_embed", "s_catch")
    /\ UNCHANGED <<req, log, writer, calls, response, run, rk, subsystems>>

\* await groq.stream(messages)
StreamOpen(at, iterPc, messages, ok, text) ==
    /\ pc = at
    /\ IF ok
       THEN /\ Called("gen_start")
            /\ run' = [run EXCEPT !.messages = messages, !.stream = text,
                                  !.fullResponse = << >>]
            /\ pc' = iterPc
       ELSE /\ Called2("gen_start", "gen_fail")
            /\ run' = [run EXCEPT !.messages = messages]
            /\ pc' = "s_catch"
    /\ UNCHANGED <<req, log, events, writer, response, rk, subsystems>>

\* a delta loop that takes a failure of the stream for its end
StreamNextFailureEndsStream(at, endPc, ok) ==
    /\ pc = at
    /\ IF run.stream = << >>
       THEN /\ Called("gen_end")
            /\ pc' = endPc
            /\ UNCHANGED <<run, events>>
       ELSE IF ~ok
       THEN /\ Called("gen_fail")
            /\ pc' = endPc
            /\ UNCHANGED <<run, events>>
       ELSE LET content == Head(run.stream)
            IN  IF content = << >>
                THEN /\ run' = [run EXCEPT !.stream = Tail(run.stream)]
                     /\ UNCHANGED <<pc, events, calls>>
                ELSE /\ run' = [run EXCEPT
                                  !.stream = Tail(run.stream),
                                  !.fullResponse = run.fullResponse \o content]
                     /\ Write(Ev("token", content, << >>, run.userMsgId, NoFollowups),
                              at, "s_catch")
                     /\ IF writer = "open" THEN calls' = calls
                                           ELSE Called("gen_abandon")
    /\ UNCHANGED <<req, log, writer, response, rk, subsystems>>

\* one turn of `for await (const chunk of stream)`: the stream ends, fails,
\* or yields a chunk whose content (if any) is accumulated and forwarded
StreamNext(at, endPc, ok) ==
    /\ pc = at
    /\ IF run.stream = << >>
       THEN /\ Called("gen_end")
            /\ pc' = endPc
            /\ UNCHANGED <<run, events>>
       ELSE IF ~ok
       THEN /\ Called("gen_fail")
            /\ pc' = "s_catch"
            /\ UNCHANGED <<run, events>>
       ELSE LET content == Head(run.stream)
            IN  IF content = << >>
                THEN /\ run' = [run EXCEPT !.stream = Tail(run.stream)]
                     /\ UNCHANGED <<pc, events, calls>>
                ELSE /\ run' = [run EXCEPT
                                  !.stream = Tail(run.stream),
                                  !.fullResponse = run.fullResponse \o content]
                     /\ Write(Ev("token", content, << >>, run.userMsgId, NoFollowups),
                              at, "s_catch")
                     /\ IF writer = "open" THEN calls' = calls
                                           ELSE Called("gen_abandon")
    /\ UNCHANGED <<req, log, writer, response, rk, subsystems>>

\* await prisma.chat.create({role: "assistant", ...})
PersistAssistant(at, message, citations, followups, ok, okPc, failPc) ==
    /\ pc = at
    /\ IF ok
       THEN /\ log' = ChatCreate("assistant", message, citations)
            /\ Called("chat.create:assistant")
            /\ run' = [run EXCEPT !.assistantId = Len(log) + 1, !.answer = message,
                                  !.followups = followups]
            /\ pc' = okPc
       ELSE /\ Called("chat.create:failed")
            /\ pc' = failPc
            /\ UNCHANGED <<log, run>>
    /\ UNCHANGED <<req, events, writer, response, rk, subsystems>>

\* await writer.write(complete event)
WriteComplete(at, citations, followups, failPc) ==
    /\ pc = at
    /\ Write(Ev("complete", << >>, citations, run.assistantId, followups),
             "s_finally", failPc)
    /\ UNCHANGED <<req, log, writer, calls, response, run, rk, subsystems>>

\* ---- General-Chat branch ----
S_GeneralOpen(ok, text) ==
    StreamOpen("sg_open", "sg_iter", GeneralMessages(req.query), ok, text)

S_GeneralNext(ok) == StreamNext("sg_iter", "sg_persist", ok)

\* enhanceResponse(fullResponse.trim()), citations: []
S_GeneralPersist(ok) ==
    PersistAssistant("sg_persist", enhanceResponse(Trim(run.fullResponse)), << >>,
                     StringList(GeneralFollowups), ok, "sg_complete", "s_catch")

S_GeneralComplete ==
    WriteComplete("sg_complete", << >>, StringList(GeneralFollowups), "s_catch")

\* ---- retrieval ----
\* await embeddings.embedQuery(query)
S_Embed(ok) ==
    /\ pc = "s_embed"
    /\ Called(IF ok THEN "embedQuery" ELSE "embedQuery:failed")
    /\ pc' = IF ok THEN "s_sources" ELSE "s_catch"
    /\ UNCHANGED <<req, log, events, writer, response, run, rk, subsystems>>

\* await prisma.source.findMany({where: {sessionId}})
S_FindSources(ok) ==
    /\ pc = "s_sources"
    /\ Called(IF ok THEN "source.findMany" ELSE "source.findMany:failed")
    /\ pc' = IF ok THEN "s_search" ELSE "s_catch"
    /\ UNCHANGED <<req, log, events, writer, response, run, rk, subsystems>>

\* await the vector search, then rank and branch on the ranked set
S_Search(ok, order) ==
    /\ pc = "s_search"
    /\ IF ok /\ ~req.topN.nan /\ req.topN.val >= 0
       THEN LET retrieved == SearchRows(order, req.sessionId, req.selectedSources,
                                        req.topN)
                deduped == RankStreaming(retrieved, req.topK)
            IN  /\ Called("search")
                /\ run' = [run EXCEPT !.retrieved = retrieved,
                                      !.deduped = deduped,
                                      !.context = Context(deduped),
                                      !.citations = Citations(deduped)]
                /\ pc' = IF Len(deduped) > 0 THEN "sr_generating"
                         ELSE IF Len(req.selectedSources) > 0 THEN "sn_invoke"
                         ELSE "sf_open"
       ELSE /\ Called("search:failed")
            /\ pc' = "s_catch"
            /\ run' = run
    /\ UNCHANGED <<req, log, events, writer, response, rk, subsystems>>

\* ---- RAG branch ----
S_RagGenerating ==
    /\ pc = "sr_generating"
    /\ Write(Ev("generating", << >>, run.citations, 0, NoFollowups),
             "sr_open", "s_catch")
    /\ UNCHANGED <<req, log, writer, calls, response, run, rk, subsystems>>

S_RagOpen(ok, text) ==
    StreamOpen("sr_open", "sr_iter", RagMessages(run.context, req.query), ok, text)

\* the delta loop leaving for the persist step after each forwarded delta
S_RagNextPersistEachDelta(ok) ==
    /\ pc = "sr_iter"
    /\ IF run.stream = << >>
       THEN /\ Called("gen_end")
            /\ pc' = "sr_parse"
            /\ UNCHANGED <<run, events>>
       ELSE /\ run' = [run EXCEPT
                         !.stream = Tail(run.stream),
                         !.fullResponse = run.fullResponse \o Head(run.stream)]
            /\ Write(Ev("token", Head(run.stream), << >>, run.userMsgId, NoFollowups),
                     "sr_parse", "s_catch")
            /\ calls' = calls
    /\ UNCHANGED <<req, log, writer, response, rk, subsystems>>

S_RagNext(ok) == StreamNext("sr_iter", "sr_parse", ok)

\* Array.isArray(json?.followups) && json.followups.length > 0
\*   ? json.followups.slice(0, 3)
\*   : generateStrategicFollowups(query, context).slice(0, 3)
FinalFollowups(json, query, context) ==
    LET followups == Member(json, FollowupsKey)
    IN  IF IsArray(followups) /\ Len(followups.a) > 0
        THEN ArraySlice(followups, 3)
        ELSE ArraySlice(StringList(generateStrategicFollowups(query, context)), 3)

\* a try block whose parse failure is not caught locally
S_RagPersistRethrow(ok) ==
    /\ pc = "sr_parse"
    /\ LET parsed == JsonParse(BraceSlice(run.fullResponse))
       IN  IF HasBraces(run.fullResponse) /\ parsed.ok
           THEN PersistAssistant("sr_parse", enhanceResponse(AnswerOf(parsed.val)),
                                 run.citations,
                                 FinalFollowups(parsed.val, req.query, run.context),
                                 ok, "sr_complete", "sr_fallback")
           ELSE /\ pc' = "s_catch"
                /\ UNCHANGED <<req, log, events, writer, calls, response, run, rk, subsystems>>

\* the try block: brace-slice and parse, then persist the enhanced answer;
\* a parse failure or a failed create passes to the catch block
S_RagPersist(ok) ==
    /\ pc = "sr_parse"
    /\ LET parsed == JsonParse(BraceSlice(run.fullResponse))
       IN  IF HasBraces(run.fullResponse) /\ parsed.ok
           THEN PersistAssistant("sr_parse", enhanceResponse(AnswerOf(parsed.val)),
                                 run.citations,
                                 FinalFollowups(parsed.val, req.query, run.context),
                                 ok, "sr_complete", "sr_fallback")
           ELSE /\ pc' = "sr_fallback"
                /\ UNCHANGED <<req, log, events, writer, calls, response, run, rk, subsystems>>

S_RagComplete ==
    WriteComplete("sr_complete", run.citations, run.followups, "sr_fallback")

\* the catch block of the parse: persist the cleaned raw text
\* enhanceResponse(fullResponse.trim() || "I had trouble processing the response.")
S_RagFallbackPersist(ok) ==
    PersistAssistant("sr_fallback",
                     enhanceResponse(IF Trim(run.fullResponse) # << >>
                                     THEN Trim(run.fullResponse)
                                     ELSE TroubleProcessing),
                     run.citations,
                     ArraySlice(StringList(generateStrategicFollowups(req.query, << >>)), 3),
                     ok, "sr_fallback_complete", "s_catch")

S_RagFallbackComplete ==
    WriteComplete("sr_fallback_complete", run.citations, run.followups, "s_catch")

\* ---- no results, explicit scope ----
\* await groq.invoke([...no-results prompt...]); the parsed object replaces
\* the default only when both braces are found and JSON.parse returns
S_NoResultsInvoke(ok, text) ==
    /\ pc = "sn_invoke"
    /\ IF ok
       THEN LET txt == Flatten(text)
                parsed == JsonParse(BraceSlice(txt))
            IN  /\ Called2("gen_start", "gen_end")
                /\ run' = [run EXCEPT
                             !.messages = NoResultsMessages(req.query),
                             !.text = txt,
                             !.parsed = IF HasBraces(txt) /\ parsed.ok
                                        THEN parsed.val ELSE DefaultParsed]
                /\ pc' = "sn_persist"
       ELSE /\ Called2("gen_start", "gen_fail")
            /\ run' = [run EXCEPT !.messages = NoResultsMessages(req.query)]
            /\ pc' = "s_catch"
    /\ UNCHANGED <<req, log, events, writer, response, rk, subsystems>>

\* enhanceResponse(parsed.answer) throws unless parsed.answer is a string
S_NoResultsPersist(ok) ==
    /\ pc = "sn_persist"
    /\ LET answer == Member(run.parsed, AnswerKey)
       IN  IF answer.t = "str"
           THEN PersistAssistant("sn_persist", enhanceResponse(answer.s), << >>,
                                 run.followups, ok, "sn_complete", "s_catch")
           ELSE /\ pc' = "s_catch"
                /\ UNCHANGED <<req, log, events, writer, calls, response, run, rk, subsystems>>

\* parsed.followups.slice(0, 3) throws unless parsed.followups is an array
\* or a string
S_NoResultsComplete ==
    /\ pc = "sn_complete"
    /\ LET followups == Member(run.parsed, FollowupsKey)
       IN  IF followups.t = "arr"
           THEN WriteComplete("sn_complete", << >>, ArraySlice(followups, 3),
                              "s_catch")
           ELSE IF followups.t = "str"
           THEN WriteComplete("sn_complete", << >>,
                              JStr(JsSlice(followups.s, 0, 3)), "s_catch")
           ELSE /\ pc' = "s_catch"
                /\ UNCHANGED <<req, log, events, writer, calls, response, run, rk, subsystems>>

\* ---- no results, all sources: general fallback ----
S_FallbackOpen(ok, text) ==
    StreamOpen("sf_open", "sf_iter", GeneralMessages(req.query), ok, text)

S_FallbackNext(ok) == StreamNext("sf_iter", "sf_persist", ok)

\* enhanceResponse(fullResponse.trim()), citations: []
S_FallbackPersist(ok) ==
    PersistAssistant("sf_persist", enhanceResponse(Trim(run.fullResponse)), << >>,
                     ArraySlice(StringList(generateStrategicFollowups(req.query, << >>)), 3),
                     ok, "sf_complete", "s_catch")

S_FallbackComplete ==
    WriteComplete("sf_complete", << >>, run.followups, "s_catch")

\* a catch block that writes no error event
S_CatchSilent ==
    /\ pc = "s_catch"
    /\ pc' = "s_finally"
    /\ UNCHANGED <<req, log, events, writer, calls, response, run, rk, subsystems>>

\* ---- catch and finally ----
S_Catch ==
    /\ pc = "s_catch"
    /\ Write(Ev("error", << >>, << >>, 0, NoFollowups), "s_finally", "s_finally")
    /\ UNCHANGED <<req, log, writer, calls, response, run, rk, subsystems>>

\* await writer.close(): closes an open writer, rejects on an errored one
S_Finally ==
    /\ pc = "s_finally"
    /\ writer' = IF writer = "open" THEN "closed" ELSE writer
    /\ run' = [run EXCEPT !.task = IF writer = "open" THEN "resolved" ELSE "rejected"]
    /\ pc' = "done"
    /\ UNCHANGED <<req, log, events, calls, response, rk, subsystems>>

(***************************************************************************)
(* processNonStreamingQuery                                                *)
(***************************************************************************)
\* an exception of the one-shot path: rethrown, caught by POST, answered 500
N_Fail ==
    /\ response' = [NoResponse EXCEPT !.status = 500, !.error = "Query failed"]
    /\ pc' = "done"

\* General-Chat: await groq.invoke([...]), answer = content.trim()
N_GeneralInvoke(ok, text) ==
    /\ pc = "n_start"
    /\ useGeneralChat
    /\ IF ok
       THEN /\ Called2("gen_start", "gen_end")
            /\ run' = [run EXCEPT !.messages = GeneralMessages(req.query),
                                  !.text = Flatten(text),
                                  !.answer = Trim(Flatten(text))]
            /\ pc' = "n_persist"
            /\ response' = response
       ELSE /\ Called2("gen_start", "gen_fail")
            /\ run' = [run EXCEPT !.messages = GeneralMessages(req.query)]
            /\ N_Fail
    /\ UNCHANGED <<req, log, events, writer, rk, subsystems>>

\* await embeddings.embedQuery(query)
N_Embed(ok) ==
    /\ pc = "n_start"
    /\ ~useGeneralChat
    /\ IF ok
       THEN /\ Called("embedQuery")
            /\ pc' = "n_search"
            /\ response' = response
       ELSE /\ Called("embedQuery:failed")
            /\ N_Fail
    /\ UNCHANGED <<req, log, events, writer, run, rk, subsystems>>

\* await the vector search, then rank; an empty ranked set gets a canned answer
N_Search(ok, order) ==
    /\ pc = "n_search"
    /\ IF ok /\ ~req.topN.nan /\ req.topN.val >= 0
       THEN LET retrieved == SearchRows(order, req.sessionId, req.selectedSources,
                                        req.topN)
                deduped == RankOneShot(retrieved, req.topK)
            IN  /\ Called("search")
                /\ IF Len(deduped) = 0
                   THEN /\ run' = [run EXCEPT
                                     !.retrieved = retrieved,
                                     !.deduped = deduped,
                                     !.answer =
                                        IF Len(req.selectedSources) > 0
                                        THEN NotFoundInSelected
                                        ELSE NotFoundInSources]
                        /\ pc' = "n_persist"
                   ELSE /\ run' = [run EXCEPT !.retrieved = retrieved,
                                              !.deduped = deduped,
                                              !.context = Context(deduped),
                                              !.citations = Citations(deduped)]
                        /\ pc' = "n_invoke"
                /\ response' = response
       ELSE /\ Called("search:failed")
            /\ run' = run
            /\ N_Fail
    /\ UNCHANGED <<req, log, events, writer, rk, subsystems>>

\* followups = Array.isArray(json?.followups) ? json.followups : []
FollowupsOrNone(json) ==
    LET followups == Member(json, FollowupsKey)
    IN  IF IsArray(followups) THEN followups ELSE NoFollowups

\* await groq.invoke([...RAG prompt...]), then parse inside try/catch: the
\* slice is taken without testing the two indices
N_RagInvoke(ok, text) ==
    /\ pc = "n_invoke"
    /\ IF ok
       THEN LET txt == Flatten(text)
                parsed == JsonParse(BraceSlice(txt))
            IN  /\ Called2("gen_start", "gen_end")
                /\ run' = [run EXCEPT
                             !.messages = RagMessages(run.context, req.query),
                             !.text = txt,
                             !.parsed = parsed.val,
                             !.answer = IF parsed.ok THEN AnswerOf(parsed.val)
                                        ELSE TroubleProcessingTryAgain,
                             !.followups = IF parsed.ok THEN FollowupsOrNone(parsed.val)
                                           ELSE NoFollowups]
                /\ pc' = "n_persist"
                /\ response' = response
       ELSE /\ Called2("gen_start", "gen_fail")
            /\ run' = [run EXCEPT !.messages = RagMessages(run.context, req.query)]
            /\ N_Fail
    /\ UNCHANGED <<req, log, events, writer, rk, subsystems>>

\* await prisma.chat.create({role: "assistant", message: answer}), respond
N_Persist(ok) ==
    /\ pc = "n_persist"
    /\ IF ok
       THEN /\ log' = ChatCreate("assistant", run.answer, << >>)
            /\ Called("chat.create:assistant")
            /\ run' = [run EXCEPT !.assistantId = Len(log) + 1]
            /\ response' = [NoResponse EXCEPT
                              !.status = 200,
                              !.answer = run.answer,
                              !.citations = run.citations,
                              !.followups = run.followups,
                              !.chatMessage = Len(log) + 1,
                              !.userMessage = run.userMsgId]
            /\ pc' = "done"
       ELSE /\ Called("chat.create:failed")
            /\ N_Fail
            /\ UNCHANGED <<log, run>>
    /\ UNCHANGED <<req, events, writer, rk, subsystems>>

(***************************************************************************)
(* Spec: one query request                                                 *)
(***************************************************************************)
\* the steps of the handler and of its background task
Step ==
    \/ \E body \in Bodies : POST_Receive(body)
    \/ \E ok \in BOOLEAN : POST_CreateUserMsg(ok)
    \/ S_Start
    \/ \E ok \in BOOLEAN, text \in LLMTexts : S_GeneralOpen(ok, text)
    \/ \E ok \in BOOLEAN : S_GeneralNext(ok)
    \/ \E ok \in BOOLEAN : S_GeneralPersist(ok)
    \/ S_GeneralComplete
    \/ \E ok \in BOOLEAN : S_Embed(ok)
    \/ \E ok \in BOOLEAN : S_FindSources(ok)
    \/ \E ok \in BOOLEAN, order \in Orderings : S_Search(ok, order)
    \/ S_RagGenerating
    \/ \E ok \in BOOLEAN, text \in LLMTexts : S_RagOpen(ok, text)
    \/ \E ok \in BOOLEAN : S_RagNext(ok)
    \/ \E ok \in BOOLEAN : S_RagPersist(ok)
    \/ S_RagComplete
    \/ \E ok \in BOOLEAN : S_RagFallbackPersist(ok)
    \/ S_RagFallbackComplete
    \/ \E ok \in BOOLEAN, text \in LLMTexts : S_NoResultsInvoke(ok, text)
    \/ \E ok \in BOOLEAN : S_NoResultsPersist(ok)
    \/ S_NoResultsComplete
    \/ \E ok \in BOOLEAN, text \in LLMTexts : S_FallbackOpen(ok, text)
    \/ \E ok \in BOOLEAN : S_FallbackNext(ok)
    \/ \E ok \in BOOLEAN : S_FallbackPersist(ok)
    \/ S_FallbackComplete
    \/ S_Catch
    \/ S_Finally
    \/ \E ok \in BOOLEAN, text \in LLMTexts : N_GeneralInvoke(ok, text)
    \/ \E ok \in BOOLEAN : N_Embed(ok)
    \/ \E ok \in BOOLEAN, order \in Orderings : N_Search(ok, order)
    \/ \E ok \in BOOLEAN, text \in LLMTexts : N_RagInvoke(ok, text)
    \/ \E ok \in BOOLEAN : N_Persist(ok)

Next == Step \/ ClientDisconnect

Spec == Init /\ [][Next]_vars

\* every awaited call eventually settles and its continuation runs
FairSpec == Spec /\ WF_vars(Step)

(***************************************************************************)
(* SpecRank: the two copies of the ranker on bounded candidate lists       *)
(***************************************************************************)
\* candidate lists: rows of the store, each at most once, in any order
CandidateLists ==
    { s \in UNION { [1..n -> ChunkRows] : n \in 0..MaxCand } :
        \A i, j \in DOMAIN s : i # j => s[i] # s[j] }

InitRank ==
    /\ pc = "rank"
    /\ req = NoReq
    /\ log = << >>
    /\ events = << >>
    /\ writer = "none"
    /\ calls = << >>
    /\ response = NoResponse
    /\ run = NoRun
    /\ SubsystemsOff
    /\ \E cands \in CandidateLists, raw \in RawNumbers :
          rk = [RkIdle EXCEPT !.phase = "input", !.cands = cands,
                              !.topK = ParseTopK(raw)]

\* streaming copy, first loop
Rk_FirstPass ==
    /\ rk.phase = "input"
    /\ LET st == FirstPass(rk.cands, rk.topK)
       IN  rk' = [rk EXCEPT !.phase = "s_pass1", !.st = st, !.pass1 = st.deduped]
    /\ UNCHANGED <<pc, req, log, events, writer, calls, response, run, subsystems>>

\* streaming copy, second loop
Rk_SecondPass ==
    /\ rk.phase = "s_pass1"
    /\ LET st == SecondPass(rk.cands, rk.topK, rk.st)
       IN  rk' = [rk EXCEPT !.phase = "s_done", !.st = st, !.outS = st.deduped]
    /\ UNCHANGED <<pc, req, log, events, writer, calls, response, run, subsystems>>

\* one-shot copy, first loop
Rk_FirstPassNS ==
    /\ rk.phase = "s_done"
    /\ LET st == FirstPassNS(rk.cands, rk.topK)
       IN  rk' = [rk EXCEPT !.phase = "n_pass1", !.stN = st, !.pass1N = st.deduped]
    /\ UNCHANGED <<pc, req, log, events, writer, calls, response, run, subsystems>>

\* one-shot copy, second loop
Rk_SecondPassNS ==
    /\ rk.phase = "n_pass1"
    /\ LET st == SecondPassNS(rk.cands, rk.topK, rk.stN)
       IN  rk' = [rk EXCEPT !.phase = "done", !.stN = st, !.outN = st.deduped]
    /\ UNCHANGED <<pc, req, log, events, writer, calls, response, run, subsystems>>

NextRank == Rk_FirstPass \/ Rk_SecondPass \/ Rk_FirstPassNS \/ Rk_SecondPassNS

SpecRank == InitRank /\ [][NextRank]_vars

(***************************************************************************)
(* SpecConc: several queries of one workspace running at the same time.    *)
(* Each query is reduced to what it does to the Chat table: the create of  *)
(* its user turn, the awaited retrieval and generation, the create of its  *)
(* assistant turn.  A row gets the time of its insert as createdAt, and    *)
(* GET /api/chats lists the rows by createdAt.                             *)
(***************************************************************************)
\* number of concurrent queries
MaxQueries == 2

\* latest time (in milliseconds) at which a query is received
MaxStart == 1

Queries == 1..MaxQueries

\* a row of the Chat table: the id is generated per row
ChatRow(q, role, at) == [id |-> <<q, role>>, role |-> role, query |-> q, createdAt |-> at]

\* an insert that replaces the newest row of the table
ChatInsertOverNewest(chat, row) ==
    IF chat = << >> THEN <<row>> ELSE [chat EXCEPT ![Len(chat)] = row]

\* INSERT INTO "Chat": the table gains the row, no other row is touched
ChatInsert(chat, row) == Append(chat, row)

InitConc ==
    /\ pc = "off"
    /\ req = NoReq
    /\ log = << >>
    /\ events = << >>
    /\ writer = "none"
    /\ calls = << >>
    /\ response = NoResponse
    /\ run = NoRun
    /\ rk = RkIdle
    /\ conc = [clock |-> 0, chat |-> << >>, at |-> [q \in Queries |-> "received"]]
    /\ ws = "off"
    /\ crawl = "off"
    /\ ing = "off"
    /\ cli = "off"

\* time passes before a request is received
Q_Wait ==
    /\ conc.clock < MaxStart
    /\ \E q \in Queries : conc.at[q] = "received"
    /\ conc' = [conc EXCEPT !.clock = conc.clock + 1]
    /\ UNCHANGED <<queryVars, ws, crawl, ing, cli>>

\* const userMsg = await prisma.chat.create({role: "user", ...}); a failure
\* is answered 500
Q_CreateUser(q, ok) ==
    /\ conc.at[q] = "received"
    /\ conc' = IF ok
               THEN [conc EXCEPT
                       !.chat = ChatInsert(conc.chat, ChatRow(q, "user", conc.clock)),
                       !.at[q] = "answering"]
               ELSE [conc EXCEPT !.at[q] = "failed"]
    /\ UNCHANGED <<queryVars, ws, crawl, ing, cli>>

\* the awaited embedding, search and generation calls of the query: they
\* take more than a millisecond; a failure ends the query
Q_Answer(q, ok) ==
    /\ conc.at[q] = "answering"
    /\ conc' = [conc EXCEPT !.clock = conc.clock + 1,
                            !.at[q] = IF ok THEN "answered" ELSE "failed"]
    /\ UNCHANGED <<queryVars, ws, crawl, ing, cli>>

\* await prisma.chat.create({role: "assistant", ...})
Q_CreateAssistant(q, ok) ==
    /\ conc.at[q] = "answered"
    /\ conc' = IF ok
               THEN [conc EXCEPT
                       !.chat = ChatInsert(conc.chat, ChatRow(q, "assistant", conc.clock)),
                       !.at[q] = "done"]
               ELSE [conc EXCEPT !.at[q] = "failed"]
    /\ UNCHANGED <<queryVars, ws, crawl, ing, cli>>

NextConc ==
    \/ Q_Wait
    \/ \E q \in Queries, ok \in BOOLEAN : Q_CreateUser(q, ok)
    \/ \E q \in Queries, ok \in BOOLEAN : Q_Answer(q, ok)
    \/ \E q \in Queries, ok \in BOOLEAN : Q_CreateAssistant(q, ok)

SpecConc == InitConc /\ [][NextConc]_vars

(***************************************************************************)
(* SpecSession: concurrent calls of GET /api/session (get-or-create of the *)
(* default workspace) against a Session table with a unique name.          *)
(***************************************************************************)
\* number of concurrent calls
MaxCallers == 3

Callers == 1..MaxCallers

MyNotebook == "My Notebook"

\* a row of the Session table, created by call c (0: created earlier)
SessionRow(c) == [id |-> c, name |-> MyNotebook]

\* null, as a row
NullSession == [id |-> -1, name |-> ""]

\* findFirst({where: {name: "My Notebook"}}): a row of that name, or null
FindFirst(sessions) ==
    IF \E s \in sessions : s.name = MyNotebook
    THEN CHOOSE s \in sessions : s.name = MyNotebook
    ELSE NullSession

\* CREATE UNIQUE INDEX "Session_name_key": an insert of a name that is in
\* the table is rejected
NameTaken(sessions, row) == \E s \in sessions : s.name = row.name

InitSession ==
    /\ pc = "off"
    /\ req = NoReq
    /\ log = << >>
    /\ events = << >>
    /\ writer = "none"
    /\ calls = << >>
    /\ response = NoResponse
    /\ run = NoRun
    /\ rk = RkIdle
    /\ conc = "off"
    /\ \E sessions \in {{}, {SessionRow(0)}} :
          ws = [sessions |-> sessions,
                at |-> [c \in Callers |-> "find"],
                session |-> [c \in Callers |-> NullSession],
                outage |-> [c \in Callers |-> FALSE],
                responded |-> [c \in Callers |-> FALSE],
                returned |-> [c \in Callers |-> NullSession]]
    /\ crawl = "off"
    /\ ing = "off"
    /\ cli = "off"

\* let session = await prisma.session.findFirst(...)
G_FindFirst(c, ok) ==
    /\ ws.at[c] = "find"
    /\ ws' = IF ok
             THEN [ws EXCEPT !.session[c] = FindFirst(ws.sessions),
                             !.at[c] = "found"]
             ELSE [ws EXCEPT !.outage[c] = TRUE, !.at[c] = "catch"]
    /\ UNCHANGED <<queryVars, conc, crawl, ing, cli>>

\* if (!session) session = await prisma.session.create(...);
\* return NextResponse.json(session)
G_CreateAndReturn(c) ==
    /\ ws.at[c] = "found"
    /\ ws' = IF ws.session[c] # NullSession
             THEN [ws EXCEPT !.returned[c] = ws.session[c],
                             !.responded[c] = TRUE, !.at[c] = "done"]
             ELSE IF NameTaken(ws.sessions, SessionRow(c))
             THEN [ws EXCEPT !.at[c] = "catch"]
             ELSE [ws EXCEPT !.sessions = ws.sessions \cup {SessionRow(c)},
                             !.session[c] = SessionRow(c),
                             !.returned[c] = SessionRow(c),
                             !.responded[c] = TRUE,
                             !.at[c] = "done"]
    /\ UNCHANGED <<queryVars, conc, crawl, ing, cli>>

\* catch (error) { {error: ...} {status: 500} }: two blocks that do nothing,
\* the handler returns no response
G_Catch(c) ==
    /\ ws.at[c] = "catch"
    /\ ws' = [ws EXCEPT !.at[c] = "done"]
    /\ UNCHANGED <<queryVars, conc, crawl, ing, cli>>

NextSession ==
    \/ \E c \in Callers, ok \in BOOLEAN : G_FindFirst(c, ok)
    \/ \E c \in Callers : G_CreateAndReturn(c)
    \/ \E c \in Callers : G_Catch(c)

SpecSession == InitSession /\ [][NextSession]_vars

(***************************************************************************)
(* SpecCrawl: crawlSite on a small site.  A step is what runs between two  *)
(* awaits: the loop test with takeBatch and the synchronous start of every *)
(* callback of the batch, then the continuation of one callback after its  *)
(* fetch has settled.                                                      *)
(***************************************************************************)
\* largest maxPages and concurrency options
MaxPagesOpt == 3
MaxConcurrency == 3

StartUrl == "p0"

\* hrefs: pages of the host, a page of another host, a non-http link
Sites ==
    { [p0 |-> <<"p1", "p2", "p3">>, p1 |-> << >>, p2 |-> << >>, p3 |-> << >>],
      [p0 |-> <<"p1">>, p1 |-> <<"p2", "p0">>, p2 |-> <<"p3">>, p3 |-> <<"p0">>],
      [p0 |-> <<"p1", "p1", "mailto:a", "other/p9">>, p1 |-> <<"p2", "p3">>,
       p2 |-> <<"p3", "p1">>, p3 |-> << >>] }

\* new URL(href, base) with an http(s) protocol, else null
normalizeUrl(href) == IF href = "mailto:a" THEN "null" ELSE href

\* sameHostOnly: the host of the start URL
shouldVisit(url) == url # "other/p9"

QueueItem(url, depth) == [url |-> url, depth |-> depth]

\* takeBatch: shift items off the queue until the batch has `concurrency`
\* items or the queue is empty; an item already visited is dropped
RECURSIVE takeBatch(_, _, _, _)
takeBatch(queue, visited, concurrency, batch) ==
    IF Len(batch) < concurrency /\ Len(queue) > 0
    THEN takeBatch(Tail(queue), visited, concurrency,
                   IF Head(queue).url \notin visited
                   THEN Append(batch, Head(queue)) ELSE batch)
    ELSE [batch |-> batch, queue |-> queue]

\* for (const href of links): push the links that normalise, pass
\* shouldVisit and are not visited
RECURSIVE PushLinks(_, _, _, _)
PushLinks(queue, links, depth, visited) ==
    IF links = << >> THEN queue
    ELSE LET norm == normalizeUrl(Head(links))
         IN  PushLinks(IF norm # "null" /\ shouldVisit(norm) /\ norm \notin visited
                       THEN Append(queue, QueueItem(norm, depth + 1))
                       ELSE queue,
                       Tail(links), depth, visited)

InitCrawl ==
    /\ pc = "off"
    /\ req = NoReq
    /\ log = << >>
    /\ events = << >>
    /\ writer = "none"
    /\ calls = << >>
    /\ response = NoResponse
    /\ run = NoRun
    /\ rk = RkIdle
    /\ conc = "off"
    /\ ws = "off"
    /\ ing = "off"
    /\ cli = "off"
    /\ \E site \in Sites, maxPages \in 0..MaxPagesOpt,
          concurrency \in 0..MaxConcurrency, maxDepth \in 0..2 :
          crawl = [site |-> site, maxPages |-> maxPages,
                   concurrency |-> concurrency, maxDepth |-> maxDepth,
                   visited |-> {}, queue |-> <<QueueItem(StartUrl, 0)>>,
                   batch |-> << >>, pending |-> {}, fetches |-> 0,
                   at |-> "loop", result |-> {}]

\* while (visited.size < maxPages && queue.length > 0): take a batch, break
\* on an empty one; every callback of the batch runs visited.add(url) and
\* starts its fetch before the first of them resumes
Cr_TakeBatch ==
    /\ crawl.at = "loop"
    /\ Cardinality(crawl.visited) < crawl.maxPages
    /\ Len(crawl.queue) > 0
    /\ LET t == takeBatch(crawl.queue, crawl.visited, crawl.concurrency, << >>)
       IN  crawl' = IF Len(t.batch) = 0
                    THEN [crawl EXCEPT !.queue = t.queue, !.at = "returned",
                                       !.result = crawl.visited]
                    ELSE [crawl EXCEPT
                            !.queue = t.queue,
                            !.batch = t.batch,
                            !.pending = DOMAIN t.batch,
                            !.visited = crawl.visited
                                \cup { t.batch[i].url : i \in DOMAIN t.batch },
                            !.fetches = crawl.fetches + Len(t.batch),
                            !.at = "batch"]
    /\ UNCHANGED <<queryVars, conc, ws, ing, cli>>

\* the continuation of one callback: fetchHtml gave a page or null; Promise.all
\* resolves with the last callback
Cr_FetchSettles(i, html) ==
    /\ crawl.at = "batch"
    /\ i \in crawl.pending
    /\ LET item == crawl.batch[i]
           stop == \/ ~html
                   \/ item.depth >= crawl.maxDepth
                   \/ Cardinality(crawl.visited) >= crawl.maxPages
           left == crawl.pending \ {i}
       IN  crawl' = [crawl EXCEPT
                       !.queue = IF stop THEN crawl.queue
                                 ELSE PushLinks(crawl.queue, crawl.site[item.url],
                                                item.depth, crawl.visited),
                       !.pending = left,
                       !.at = IF left = {} THEN "loop" ELSE "batch"]
    /\ UNCHANGED <<queryVars, conc, ws, ing, cli>>

\* the loop test fails: return Array.from(visited)
Cr_Return ==
    /\ crawl.at = "loop"
    /\ ~(Cardinality(crawl.visited) < crawl.maxPages /\ Len(crawl.queue) > 0)
    /\ crawl' = [crawl EXCEPT !.at = "returned", !.result = crawl.visited]
    /\ UNCHANGED <<queryVars, conc, ws, ing, cli>>

NextCrawl ==
    \/ Cr_TakeBatch
    \/ \E i \in 1..MaxConcurrency, html \in BOOLEAN : Cr_FetchSettles(i, html)
    \/ Cr_Return

SpecCrawl == InitCrawl /\ [][NextCrawl]_vars

(***************************************************************************)
(* SpecIngest: one call of ingestWebsite or ingestWebsiteDeep against the  *)
(* Source and SourceChunk tables.  Every awaited call either returns or    *)
(* throws; a throw passes to the catch block, which logs and rethrows.     *)
(***************************************************************************)
\* most chunks the splitter makes of one page, most URLs the crawl returns
MaxChunks == 2
MaxUrls == 3

\* the id of the Source row the call creates
NewSource == "src"

\* the tables before the call: an earlier source with its chunk
StoreBefore == [sources |-> {"s0"}, chunks |-> {<<"s0", 1>>}]

\* INSERT INTO "SourceChunk" (id, sourceId, content, embedding, metadata, ...)
insertChunkRowRaw(store, sourceId, n) ==
    [store EXCEPT !.chunks = store.chunks \cup {<<sourceId, n>>}]

\* prisma.source.create({data: {sessionId, name, type: "url"}})
SourceCreate(store, sourceId) ==
    [store EXCEPT !.sources = store.sources \cup {sourceId}]

\* catch (err) { console.error(...); throw new Error(...) }
Rethrow(at) == [ing EXCEPT !.at = "thrown", !.failedAt = at]

InitIngest ==
    /\ pc = "off"
    /\ req = NoReq
    /\ log = << >>
    /\ events = << >>
    /\ writer = "none"
    /\ calls = << >>
    /\ response = NoResponse
    /\ run = NoRun
    /\ rk = RkIdle
    /\ conc = "off"
    /\ ws = "off"
    /\ crawl = "off"
    /\ cli = "off"
    /\ \E deep \in BOOLEAN, maxChunksPerBatch \in 1..MaxChunks :
          ing = [deep |-> deep, at |-> IF deep THEN "d_create" ELSE "load",
                 store |-> StoreBefore, made |-> 0, i |-> 0,
                 urls |-> 0, topush |-> 0, texts |-> 0, totalChunks |-> 0,
                 maxChunksPerBatch |-> IF deep THEN maxChunksPerBatch ELSE 0,
                 resume |-> "none", failedAt |-> "none"]

\* ---- ingestWebsite ----
\* const docs = await loader.load(); no document is an error
I_Load(ok, docs) ==
    /\ ing.at = "load"
    /\ ing' = IF ok /\ docs > 0 THEN [ing EXCEPT !.at = "split"] ELSE Rethrow("load")
    /\ UNCHANGED <<queryVars, conc, ws, crawl, cli>>

\* const chunks = await splitter.splitDocuments(...); no chunk is an error
I_Split(ok, n) ==
    /\ ing.at = "split"
    /\ ing' = IF ok /\ n > 0 THEN [ing EXCEPT !.at = "create", !.made = n]
              ELSE Rethrow("split")
    /\ UNCHANGED <<queryVars, conc, ws, crawl, cli>>

\* const source = await prisma.source.create(...)
I_CreateSource(ok) ==
    /\ ing.at = "create"
    /\ ing' = IF ok
              THEN [ing EXCEPT !.at = "embed",
                               !.store = SourceCreate(ing.store, NewSource)]
              ELSE Rethrow("create")
    /\ UNCHANGED <<queryVars, conc, ws, crawl, cli>>

\* const vectors = await embeddings.embedDocuments(texts)
I_Embed(ok) ==
    /\ ing.at = "embed"
    /\ ing' = IF ok THEN [ing EXCEPT !.at = "insert", !.i = 0] ELSE Rethrow("embed")
    /\ UNCHANGED <<queryVars, conc, ws, crawl, cli>>

\* await insertChunkRowRaw(...) for chunk i; return source.id after the last
I_InsertChunk(ok) ==
    /\ ing.at = "insert"
    /\ ing' = IF ok
              THEN [ing EXCEPT
                      !.store = insertChunkRowRaw(ing.store, NewSource, ing.i + 1),
                      !.i = ing.i + 1,
                      !.at = IF ing.i + 1 = ing.made THEN "returned" ELSE "insert"]
              ELSE Rethrow("insert")
    /\ UNCHANGED <<queryVars, conc, ws, crawl, cli>>

\* ---- ingestWebsiteDeep ----
\* const source = await prisma.source.create(...)
D_CreateSource(ok) ==
    /\ ing.at = "d_create"
    /\ ing' = IF ok
              THEN [ing EXCEPT !.at = "d_crawl",
                               !.store = SourceCreate(ing.store, NewSource)]
              ELSE Rethrow("d_create")
    /\ UNCHANGED <<queryVars, conc, ws, crawl, cli>>

\* const urls = await crawlSite(baseUrl, ...)
D_Crawl(n) ==
    /\ ing.at = "d_crawl"
    /\ ing' = [ing EXCEPT !.at = "d_page", !.urls = n]
    /\ UNCHANGED <<queryVars, conc, ws, crawl, cli>>

\* for (const c of chunks): push until the batch is full (then flushBatch is
\* awaited) or the chunks of the page are used up (then the next URL)
PushChunks(s) ==
    LET room == s.maxChunksPerBatch - s.texts
        k == IF s.topush <= room THEN s.topush ELSE room
        s1 == [s EXCEPT !.texts = s.texts + k, !.topush = s.topush - k]
    IN  IF s1.texts >= s1.maxChunksPerBatch
        THEN [s1 EXCEPT !.at = "d_embed", !.resume = "d_push"]
        ELSE [s1 EXCEPT !.at = "d_page", !.urls = s.urls - 1]

\* const docs = await loader.load(); if (!docs?.length) continue
D_Load(ok, docs) ==
    /\ ing.at = "d_page"
    /\ ing.urls > 0
    /\ ing' = IF ~ok THEN Rethrow("d_load")
              ELSE IF docs = 0 THEN [ing EXCEPT !.urls = ing.urls - 1]
              ELSE [ing EXCEPT !.at = "d_split"]
    /\ UNCHANGED <<queryVars, conc, ws, crawl, cli>>

\* const chunks = await splitter.splitDocuments(docsWithMeta), then the
\* push loop up to its first await
D_Split(ok, n) ==
    /\ ing.at = "d_split"
    /\ ing' = IF ok
              THEN PushChunks([ing EXCEPT !.topush = n, !.made = ing.made + n])
              ELSE Rethrow("d_split")
    /\ UNCHANGED <<queryVars, conc, ws, crawl, cli>>

\* await flushBatch() after the loop over the URLs; an empty batch returns
D_FinalFlush ==
    /\ ing.at = "d_page"
    /\ ing.urls = 0
    /\ ing' = IF ing.texts = 0 THEN [ing EXCEPT !.at = "returned"]
              ELSE [ing EXCEPT !.at = "d_embed", !.resume = "d_return"]
    /\ UNCHANGED <<queryVars, conc, ws, crawl, cli>>

\* flushBatch: const vectors = await embeddings.embedDocuments(texts)
D_Embed(ok) ==
    /\ ing.at = "d_embed"
    /\ ing' = IF ok THEN [ing EXCEPT !.at = "d_insert", !.i = 0]
              ELSE Rethrow("d_embed")
    /\ UNCHANGED <<queryVars, conc, ws, crawl, cli>>

\* flushBatch: await insertChunkRowRaw(...) for text i; after the last the
\* batch is emptied and the caller of flushBatch goes on
D_InsertChunk(ok) ==
    /\ ing.at = "d_insert"
    /\ ing' = IF ~ok THEN Rethrow("d_insert")
              ELSE LET s == [ing EXCEPT
                               !.store = insertChunkRowRaw(ing.store, NewSource,
                                             ing.totalChunks + ing.i + 1),
                               !.i = ing.i + 1]
                   IN  IF s.i < s.texts THEN s
                       ELSE LET flushed == [s EXCEPT
                                              !.totalChunks = s.totalChunks + s.texts,
                                              !.texts = 0, !.i = 0,
                                              !.resume = "none"]
                            IN  IF s.resume = "d_return"
                                THEN [flushed EXCEPT !.at = "returned"]
                                ELSE PushChunks(flushed)
    /\ UNCHANGED <<queryVars, conc, ws, crawl, cli>>

NextIngest ==
    \/ \E ok \in BOOLEAN, docs \in 0..1 : I_Load(ok, docs)
    \/ \E ok \in BOOLEAN, n \in 0..MaxChunks : I_Split(ok, n)
    \/ \E ok \in BOOLEAN : I_CreateSource(ok)
    \/ \E ok \in BOOLEAN : I_Embed(ok)
    \/ \E ok \in BOOLEAN : I_InsertChunk(ok)
    \/ \E ok \in BOOLEAN : D_CreateSource(ok)
    \/ \E n \in 0..MaxUrls : D_Crawl(n)
    \/ \E ok \in BOOLEAN, docs \in 0..1 : D_Load(ok, docs)
    \/ \E ok \in BOOLEAN, n \in 0..MaxChunks : D_Split(ok, n)
    \/ D_FinalFlush
    \/ \E ok \in BOOLEAN : D_Embed(ok)
    \/ \E ok \in BOOLEAN : D_InsertChunk(ok)

SpecIngest == InitIngest /\ [][NextIngest]_vars

(***************************************************************************)
(* SpecClient: streamQuery reading the body of a streaming response.  The  *)
(* server writes one frame per event, `data: ${JSON.stringify(ev)}\n\n`,   *)
(* encoded as UTF-8; the network hands the bytes to reader.read() in       *)
(* chunks of any size.                                                     *)
(***************************************************************************)
\* most events of a response, most bytes of a chunk (a chunk may also hold
\* all that is left)
MaxEvents == 2
MaxRead == 3

\* "data: "
DataPrefix == <<100, 97, 116, 97, 58, 32>>

\* {"type":   and   ,"content":
TypeKeyText == <<123, 34, 116, 121, 112, 101, 34, 58>>
ContentKeyText == <<44, 34, 99, 111, 110, 116, 101, 110, 116, 34, 58>>

\* the events of the model: token events whose content is "a", a line feed,
\* "e" with an acute accent, a quote and a backslash; the complete event
StreamEvents ==
    { [type |-> <<116, 111, 107, 101, 110>>, content |-> <<97>>],
      [type |-> <<116, 111, 107, 101, 110>>, content |-> <<10>>],
      [type |-> <<116, 111, 107, 101, 110>>, content |-> <<233>>],
      [type |-> <<116, 111, 107, 101, 110>>, content |-> <<34, 92>>],
      [type |-> <<99, 111, 109, 112, 108, 101, 116, 101>>, content |-> << >>] }

\* JSON.stringify of a string: quotes, with ", \ and line feed escaped
JsonQuote(s) ==
    <<34>> \o Flatten([i \in DOMAIN s |->
                          IF s[i] = 34 THEN <<92, 34>>
                          ELSE IF s[i] = 92 THEN <<92, 92>>
                          ELSE IF s[i] = 10 THEN <<92, 110>>
                          ELSE <<s[i]>>]) \o <<34>>

\* JSON.stringify({type, content})
EventJson(ev) ==
    TypeKeyText \o JsonQuote(ev.type) \o ContentKeyText \o JsonQuote(ev.content)
        \o <<125>>

\* `data: ${JSON.stringify(ev)}\n\n`
Frame(ev) == DataPrefix \o EventJson(ev) \o <<10, 10>>

\* encoder.encode(text): UTF-8, one byte below 128, two bytes below 2048;
\* byte p belongs to the unit i whose bytes start after Utf8Offset(s, i)
Utf8Offset(s, i) == (i - 1) + Cardinality({ j \in 1..(i - 1) : s[j] >= 128 })

Utf8Encode(s) ==
    [p \in 1..Utf8Offset(s, Len(s) + 1) |->
        LET i == CHOOSE k \in DOMAIN s :
                     Utf8Offset(s, k) < p /\ p <= Utf8Offset(s, k + 1)
        IN  IF s[i] < 128 THEN s[i]
            ELSE IF p = Utf8Offset(s, i) + 1 THEN 192 + (s[i] \div 64)
            ELSE 128 + (s[i] % 64)]

\* the bytes of the response body
BodyOf(sent) == Utf8Encode(Flatten([i \in DOMAIN sent |-> Frame(sent[i])]))

IsLeadByte(b) == b >= 192 /\ b < 224
IsContinuationByte(b) == b >= 128 /\ b < 192

\* decoder.decode(value, {stream: true}): the text of the complete
\* sequences; a lead byte at the end is kept for the next call, a malformed
\* sequence gives U+FFFD
Utf8Decode(bytes) ==
    LET n == Len(bytes)
        held == n > 0 /\ IsLeadByte(bytes[n])
        consumed(i) == /\ i > 1
                       /\ IsContinuationByte(bytes[i])
                       /\ IsLeadByte(bytes[i - 1])
        starts == SelectSeq([i \in 1..n |-> i],
                            LAMBDA i : ~consumed(i) /\ ~(held /\ i = n))
    IN  [text |-> [k \in DOMAIN starts |->
                      LET i == starts[k]
                      IN  IF bytes[i] < 128 THEN bytes[i]
                          ELSE IF IsLeadByte(bytes[i]) /\ i < n
                                  /\ IsContinuationByte(bytes[i + 1])
                               THEN (bytes[i] - 192) * 64 + (bytes[i + 1] - 128)
                               ELSE 65533],
         pending |-> IF held THEN <<bytes[n]>> ELSE << >>]

\* buffer.split("\n"): the texts between the line feeds
SplitLines(s) ==
    LET nl == SelectSeq([i \in 1..Len(s) |-> i], LAMBDA i : s[i] = 10)
    IN  [k \in 1..(Len(nl) + 1) |->
            SubSeq(s, IF k = 1 THEN 1 ELSE nl[k - 1] + 1,
                      IF k = Len(nl) + 1 THEN Len(s) ELSE nl[k] - 1)]

\* a remainder that is thrown away after every read
RemainderDropped(lines) == << >>

\* buffer = lines.pop() || ""
Remainder(lines) == lines[Len(lines)]

\* a JSON string with its escapes, read from the quote at index i
RECURSIVE JsonQuotedFrom(_, _, _)
JsonQuotedFrom(s, j, acc) ==
    IF j > Len(s) THEN JFail
    ELSE IF s[j] = 34 THEN JOk(acc, j + 1)
    ELSE IF s[j] < 32 THEN JFail
    ELSE IF s[j] = 92
         THEN IF j = Len(s) THEN JFail
              ELSE IF s[j + 1] \in {34, 92, 47}
                   THEN JsonQuotedFrom(s, j + 2, Append(acc, s[j + 1]))
              ELSE IF s[j + 1] = 110 THEN JsonQuotedFrom(s, j + 2, Append(acc, 10))
              ELSE JFail
    ELSE JsonQuotedFrom(s, j + 1, Append(acc, s[j]))

JsonQuoted(s, i) ==
    IF i <= Len(s) /\ s[i] = 34 THEN JsonQuotedFrom(s, i + 1, << >>) ELSE JFail

\* JSON.parse(jsonStr) as StreamEvent, for the texts of event objects; any
\* other text throws
ParseEvent(text) ==
    LET failed == [ok |-> FALSE, event |-> [type |-> << >>, content |-> << >>]]
    IN  IF ~IsPrefix(TypeKeyText, text) THEN failed
        ELSE LET t == JsonQuoted(text, Len(TypeKeyText) + 1)
             IN  IF ~t.ok THEN failed
                 ELSE IF JsSlice(text, t.next - 1, t.next - 1 + Len(ContentKeyText))
                             # ContentKeyText
                      THEN failed
                 ELSE LET c == JsonQuoted(text, t.next + Len(ContentKeyText))
                      IN  IF c.ok /\ c.next = Len(text) /\ text[c.next] = 125
                          THEN [ok |-> TRUE,
                                event |-> [type |-> t.val, content |-> c.val]]
                          ELSE failed

\* for (const line of lines): a line that starts with "data: " and has a
\* payload is parsed and handed to onEvent; a parse error is logged
RECURSIVE DeliverLines(_, _, _)
DeliverLines(lines, i, delivered) ==
    IF i > Len(lines) THEN delivered
    ELSE IF ~IsPrefix(DataPrefix, lines[i]) THEN DeliverLines(lines, i + 1, delivered)
    ELSE LET jsonStr == Trim(JsSlice(lines[i], 6, Len(lines[i])))
             parsed == ParseEvent(jsonStr)
         IN  DeliverLines(lines, i + 1,
                 IF jsonStr # << >> /\ parsed.ok
                 THEN Append(delivered, parsed.event)
                 ELSE delivered)

InitClient ==
    /\ pc = "off"
    /\ req = NoReq
    /\ log = << >>
    /\ events = << >>
    /\ writer = "none"
    /\ calls = << >>
    /\ response = NoResponse
    /\ run = NoRun
    /\ rk = RkIdle
    /\ conc = "off"
    /\ ws = "off"
    /\ crawl = "off"
    /\ ing = "off"
    /\ \E sent \in UNION { [1..n -> StreamEvents] : n \in 0..MaxEvents } :
          cli = [sent |-> sent, body |-> BodyOf(sent), pos |-> 0,
                 pending |-> << >>, buffer |-> << >>, delivered |-> << >>,
                 at |-> "reading"]

\* const {done, value} = await reader.read() with a chunk of n bytes (or of
\* all the bytes left), then the body of the loop
Cl_Read(n, rest) ==
    /\ cli.at = "reading"
    /\ cli.pos < Len(cli.body)
    /\ LET size == IF rest THEN Len(cli.body) - cli.pos ELSE n
       IN  /\ cli.pos + size <= Len(cli.body)
           /\ LET value == SubSeq(cli.body, cli.pos + 1, cli.pos + size)
                  decoded == Utf8Decode(cli.pending \o value)
                  lines == SplitLines(cli.buffer \o decoded.text)
              IN  cli' = [cli EXCEPT
                            !.pos = cli.pos + size,
                            !.pending = decoded.pending,
                            !.buffer = Remainder(lines),
                            !.delivered =
                                DeliverLines(SubSeq(lines, 1, Len(lines) - 1), 1,
                                             cli.delivered)]
    /\ UNCHANGED <<queryVars, conc, ws, crawl, ing>>

\* reader.read() reports done: break
Cl_Done ==
    /\ cli.at = "reading"
    /\ cli.pos = Len(cli.body)
    /\ cli' = [cli EXCEPT !.at = "done"]
    /\ UNCHANGED <<queryVars, conc, ws, crawl, ing>>

NextClient ==
    \/ \E n \in 1..MaxRead, rest \in BOOLEAN : Cl_Read(n, rest)
    \/ Cl_Done

SpecClient == InitClient /\ [][NextClient]_vars

(***************************************************************************)
(* Properties                                                              *)
(***************************************************************************)
Terminal(e) == e.type \in {"complete", "error"}

\* the assistant turns this request appended
OwnAssistantTurns ==
    { i \in DOMAIN log : run.userMsgId # 0 /\ i > run.userMsgId
                         /\ log[i].role = "assistant" }

\* the user turn of this request is in the log
UserTurnInLog ==
    /\ run.userMsgId \in DOMAIN log
    /\ log[run.userMsgId] =
         Turn(run.userMsgId, req.sessionId, "user", req.query, << >>)

GenEnded(c) == c \in {"gen_end", "gen_fail", "gen_abandon"}

CountCalls(upto, P(_)) == Cardinality({ k \in 1..upto : P(calls[k]) })

IsGenStart(c) == c = "gen_start"

IsCollaboratorCall(c) ==
    c \in {"embedQuery", "embedQuery:failed", "source.findMany",
           "source.findMany:failed", "search", "search:failed", "gen_start"}

\* C1: within one query the user turn is appended before any embedding,
\* search or generation call is issued, and an assistant turn is appended
\* only after every generation call of the query has been issued and has
\* completed.
C1_UserTurnBeforeCallsAssistantAfterGeneration ==
    /\ \A i \in DOMAIN calls :
          IsCollaboratorCall(calls[i]) =>
             /\ \E j \in 1..(i - 1) : calls[j] = "chat.create:user"
             /\ UserTurnInLog
    /\ \A i \in DOMAIN calls :
          calls[i] = "chat.create:assistant" =>
             \A j \in DOMAIN calls :
                calls[j] = "gen_start" =>
                   /\ j < i
                   /\ \E k \in (j + 1)..(i - 1) : calls[k] = "gen_end"

C1_Witness ==
    /\ pc = "done"
    /\ \E i, j, k \in DOMAIN calls :
          /\ calls[i] = "embedQuery"
          /\ calls[j] = "gen_end"
          /\ calls[k] = "chat.create:assistant"
    /\ OwnAssistantTurns # {}

\* C2: every streaming run terminates; a terminal event is never followed by
\* another event, and a closed stream holds exactly one terminal event, its
\* last event.
C2_TerminatesWithOneTerminalEvent ==
    /\ <>(pc = "done")
    /\ [](\A i \in DOMAIN events : Terminal(events[i]) => i = Len(events))
    /\ [](writer = "closed" =>
             /\ Len(events) > 0
             /\ Terminal(events[Len(events)])
             /\ Cardinality({ i \in DOMAIN events : Terminal(events[i]) }) = 1)

C2_Witness ==
    /\ writer = "closed"
    /\ pc = "done"
    /\ Len(events) >= 3
    /\ events[Len(events)].type = "error"
    /\ \E i \in DOMAIN events : events[i].type = "token"

\* C3: in every stream the first event is searching or thinking, a terminal
\* event is the last one, and no token event is written before a generating
\* or a thinking event.
C3_TokensFollowGeneratingOrThinking ==
    /\ Len(events) > 0 => events[1].type \in {"searching", "thinking"}
    /\ \A i \in DOMAIN events : Terminal(events[i]) => i = Len(events)
    /\ \A i \in DOMAIN events :
          events[i].type = "generating" => i = 2 /\ events[1].type = "searching"
    /\ \A i \in DOMAIN events :
          events[i].type = "token" =>
             \E j \in 1..(i - 1) : events[j].type \in {"generating", "thinking"}

\* C4: no assistant turn is appended while a generation stream of the query
\* is producing deltas: at every append of an assistant turn each generation
\* started has ended, and while deltas are pending the query has no
\* assistant turn in the log.
C4_NoAssistantTurnMidStream ==
    /\ \A i \in DOMAIN calls :
          calls[i] = "chat.create:assistant" =>
             CountCalls(i, IsGenStart) = CountCalls(i, GenEnded)
    /\ (pc \in {"sg_iter", "sr_iter", "sf_iter"} => OwnAssistantTurns = {})
    /\ (run.stream # << >> /\ pc # "s_catch" /\ pc # "s_finally" /\ pc # "done"
           => OwnAssistantTurns = {})

C4_Witness ==
    /\ pc = "sr_complete"
    /\ Len(run.fullResponse) >= 4
    /\ OwnAssistantTurns # {}

\* C5: whenever a streaming run has written an error event, no assistant
\* turn has been persisted for that query and its user turn is in the log.
C5_ErrorEventMeansNoAssistantTurn ==
    (\E i \in DOMAIN events : events[i].type = "error") =>
        /\ OwnAssistantTurns = {}
        /\ UserTurnInLog

\* C6: a request without a session id or with an empty query is answered 400
\* before anything is persisted: the log is as before the request, no stream
\* is opened, and no collaborator is called.
C6_InvalidRequestHasNoEffect ==
    /\ (pc # "idle" /\ (req.sessionId = "" \/ req.query = << >>)) =>
          /\ pc = "done"
          /\ response.status = 400
          /\ ~response.stream
    /\ response.status = 400 =>
          /\ log \in InitialLogs
          /\ writer = "none"
          /\ events = << >>
          /\ calls = << >>
          /\ run = NoRun

C6_Witness ==
    /\ response.status = 400
    /\ response.error = "query required"
    /\ req.sessionId = "W1"
    /\ req.streaming

\* a <= b of JavaScript, b a number that may be NaN
NumLe(a, b) == ~b.nan /\ a <= b.val

RankOutputs == {rk.pass1, rk.outS, rk.pass1N, rk.outN}

\* C7: for every candidate list and every topK the request parser lets
\* through, the ranked set has at most topK entries and no more entries than
\* the candidate list.
C7_RankedSetAtMostTopK ==
    \A out \in RankOutputs :
        /\ (out # << >> => NumLe(Len(out), rk.topK))
        /\ Len(out) <= Len(rk.cands)

\* C8: no two entries of a ranked set have the same fingerprint, nor texts
\* that are equal after lower-casing, collapsing white space and trimming,
\* whichever pass accepted them.
C8_NoTwoEntriesShareAFingerprint ==
    \A out \in RankOutputs :
        \A i, j \in DOMAIN out :
            i # j =>
               /\ hashText(out[i].content) # hashText(out[j].content)
               /\ NormalizeText(out[i].content) # NormalizeText(out[j].content)

C8_Witness ==
    /\ rk.phase = "done"
    /\ Len(rk.outS) > Len(rk.pass1)
    /\ \E i, j \in DOMAIN rk.cands :
          /\ i < j
          /\ rk.cands[i].content # rk.cands[j].content
          /\ NormalizeText(rk.cands[i].content) = NormalizeText(rk.cands[j].content)
          /\ \E k \in DOMAIN rk.outS : rk.outS[k] = rk.cands[i]

CountFrom(out, src) == Cardinality({ i \in DOMAIN out : out[i].sourceId = src })

OverCap(out) == \E s \in SourceRows : CountFrom(out, s.id) > maxPerSourceFirstPass

\* C9: after the first pass no source has more than 2 entries; a source has
\* more than 2 entries in the ranked set only when the first pass ended with
\* fewer than K entries and the second pass added entries; when the first
\* pass reaches K the ranked set is its result.
C9_CapExceededOnlyByBackfill ==
    /\ ~OverCap(rk.pass1)
    /\ ~OverCap(rk.pass1N)
    /\ (OverCap(rk.outS) =>
           NumLt(Len(rk.pass1), rk.topK) /\ Len(rk.outS) > Len(rk.pass1))
    /\ (OverCap(rk.outN) =>
           NumLt(Len(rk.pass1N), rk.topK) /\ Len(rk.outN) > Len(rk.pass1N))
    /\ (rk.phase \in {"s_done", "n_pass1", "done"} /\ NumGe(Len(rk.pass1), rk.topK)
           => rk.outS = rk.pass1)
    /\ (rk.phase = "done" /\ NumGe(Len(rk.pass1N), rk.topK) => rk.outN = rk.pass1N)

C9_Witness ==
    /\ rk.phase = "done"
    /\ OverCap(rk.outS)
    /\ OverCap(rk.outN)

\* C10: on the same candidate list and K the copy of the ranker in the
\* streaming path and the copy in the one-shot path, run one after the
\* other, return the same ranked set.
C10_BothCopiesRankAlike ==
    /\ (rk.phase \in {"n_pass1", "done"} => rk.pass1N = rk.pass1)
    /\ (rk.phase = "done" => rk.outN = rk.outS)

C10_Witness ==
    /\ rk.phase = "done"
    /\ Len(rk.outN) >= 2
    /\ Len(rk.outN) < Len(rk.cands)
    /\ Len(rk.outS) > Len(rk.pass1)

CallsHas(c) == \E i \in DOMAIN calls : calls[i] = c

GeneralPcs == {"sg_open", "sg_iter", "sg_persist", "sg_complete"}

RetrievalPcs ==
    {"s_embed", "s_sources", "s_search", "sr_generating", "sr_open", "sr_iter",
     "sr_parse", "sr_complete", "sr_fallback", "sr_fallback_complete",
     "sn_invoke", "sn_persist", "sn_complete", "sf_open", "sf_iter",
     "sf_persist", "sf_complete", "n_search", "n_invoke"}

RetrievalCalls ==
    {"embedQuery", "embedQuery:failed", "source.findMany",
     "source.findMany:failed", "search", "search:failed"}

\* C11: General-Chat mode is taken exactly when the explicit scope is empty
\* and the query starts with a small-talk phrase; in that mode no embedding,
\* source lookup or search call is made; in every other case (a scoped
\* small-talk query included) a generation is preceded by the embedding and
\* the search.  The condition reads the query and the scope only.
C11_GeneralChatIffNoScopeAndSmallTalk ==
    LET general == Len(req.selectedSources) = 0 /\ SMALL_TALK(req.query)
    IN  /\ (pc \in GeneralPcs => general)
        /\ (pc \in RetrievalPcs => ~general)
        /\ (events # << >> => (events[1].type = "thinking" <=> general))
        /\ (general => \A i \in DOMAIN calls : calls[i] \notin RetrievalCalls)
        /\ (general /\ pc = "n_persist" => CallsHas("gen_end"))
        /\ (~general /\ CallsHas("gen_start") =>
               CallsHas("embedQuery") /\ CallsHas("search"))

C11_Witness ==
    /\ pc = "done"
    /\ req.query = Hello
    /\ Len(req.selectedSources) > 0
    /\ CallsHas("embedQuery")
    /\ CallsHas("gen_end")
    /\ OwnAssistantTurns # {}

FailedCalls ==
    {"chat.create:failed", "embedQuery:failed", "source.findMany:failed",
     "search:failed", "gen_fail", "gen_abandon"}

\* no collaborator call of the query failed and the caller stayed connected
NoCollaboratorFailure ==
    /\ \A i \in DOMAIN calls : calls[i] \notin FailedCalls
    /\ writer # "errored"

LastEvent == events[Len(events)]

\* the run ended with a complete event that names a stored assistant turn
EndedWithComplete ==
    /\ events # << >>
    /\ LastEvent.type = "complete"
    /\ LastEvent.chatMessage \in OwnAssistantTurns

\* the answer text handed to the caller: the message of the assistant turn
\* in the complete event, or the answer field of the one-shot response
ReturnedAnswer ==
    IF req.streaming THEN log[LastEvent.chatMessage].message ELSE response.answer

\* retrieval ran with an explicit scope and ranked nothing
ScopedEmptyEvidence ==
    /\ Len(req.selectedSources) > 0
    /\ CallsHas("search")
    /\ run.deduped = << >>

\* C12: a query with an explicit scope whose ranked set is empty, none of
\* whose collaborator calls fails, ends normally with a non-empty answer:
\* the streaming run with a complete event after the no-results prompt, the
\* one-shot run with a 200 response, whatever the model returned.
C12_ScopedEmptyEvidenceEndsNormally ==
    (pc = "done" /\ ScopedEmptyEvidence /\ NoCollaboratorFailure) =>
        IF req.streaming
        THEN /\ EndedWithComplete
             /\ run.messages.template = "NO_RESULTS_COT_PROMPT"
             /\ ReturnedAnswer # << >>
        ELSE /\ response.status = 200
             /\ response.answer # << >>

\* retrieval ran over all sources of the workspace and ranked nothing
UnscopedEmptyEvidence ==
    /\ Len(req.selectedSources) = 0
    /\ CallsHas("search")
    /\ run.deduped = << >>

\* C13: a query without explicit scope whose ranked set is empty is answered
\* by a generation with the general system prompt and the query as user
\* message, in the streaming and in the one-shot execution, and the answer
\* is not one of the no-results messages.
C13_UnscopedEmptyEvidenceFallsBackToGeneralChat ==
    (pc = "done" /\ UnscopedEmptyEvidence /\ NoCollaboratorFailure) =>
        /\ run.messages = GeneralMessages(req.query)
        /\ CallsHas("gen_end")
        /\ IF req.streaming THEN EndedWithComplete ELSE response.status = 200
        /\ ReturnedAnswer \notin {NotFoundInSources, NotFoundInSelected}

\* the generation call of a RAG query has returned
RagGenerationReturned ==
    /\ run.messages.template = "userRagQA"
    /\ CallsHas("gen_end")

HasErrorEvent == \E i \in DOMAIN events : events[i].type = "error"

\* C14: after the generation call of a RAG query has returned, and while no
\* collaborator call fails, the query never enters the error path whatever
\* the text is: no error event, no error response, and the finished query
\* has a persisted assistant turn named by its complete event or response.
C14_ParseRepairNeverFailsTheQuery ==
    (RagGenerationReturned /\ NoCollaboratorFailure) =>
        /\ pc # "s_catch"
        /\ ~HasErrorEvent
        /\ response.status # 500
        /\ (pc = "done" =>
               IF req.streaming
               THEN EndedWithComplete
               ELSE /\ response.status = 200
                    /\ response.chatMessage \in OwnAssistantTurns)

\* a finished streaming RAG query whose text has braces but does not parse
C14_Witness ==
    /\ pc = "done"
    /\ req.streaming
    /\ RagGenerationReturned
    /\ NoCollaboratorFailure
    /\ HasBraces(run.fullResponse)
    /\ ~JsonParse(BraceSlice(run.fullResponse)).ok
    /\ EndedWithComplete

\* the text the model returned for the query
RawText == IF req.streaming THEN run.fullResponse ELSE run.text

\* the brace slice of the text parses as JSON
Parseable(text) == HasBraces(text) /\ JsonParse(BraceSlice(text)).ok

\* the follow-ups handed to the caller
ReturnedFollowups ==
    IF req.streaming THEN LastEvent.followups ELSE response.followups

\* the assistant turn handed to the caller
ReturnedTurn ==
    log[IF req.streaming THEN LastEvent.chatMessage ELSE response.chatMessage]

\* the query finished with a complete event or a 200 response
EndedNormally ==
    /\ pc = "done"
    /\ IF req.streaming THEN EndedWithComplete ELSE response.status = 200

HeuristicFollowups(query) ==
    ArraySlice(StringList(generateStrategicFollowups(query, << >>)), 3)

\* C15: when the text a RAG generation returned is not empty and holds no
\* parseable JSON object, the answer returned and persisted is that text,
\* trimmed and cleaned up, and the follow-up list is empty or the heuristic
\* one, in the streaming and in the one-shot execution.
C15_UnparseableOutputFallsBackToCleanedRawText ==
    (EndedNormally /\ RagGenerationReturned /\ NoCollaboratorFailure
        /\ ~Parseable(RawText) /\ Trim(RawText) # << >>) =>
        /\ ReturnedAnswer = enhanceResponse(Trim(RawText))
        /\ ReturnedTurn.message = enhanceResponse(Trim(RawText))
        /\ ReturnedFollowups \in {NoFollowups, HeuristicFollowups(req.query)}

\* the object in the model's text, when the brace slice parses
ParsedObject == JsonParse(BraceSlice(RawText)).val

\* the text holds an object with a string answer and a non-empty list of
\* follow-ups
WellFormedAnswerObject ==
    /\ Parseable(RawText)
    /\ Member(ParsedObject, AnswerKey).t = "str"
    /\ IsArray(Member(ParsedObject, FollowupsKey))
    /\ Len(Member(ParsedObject, FollowupsKey).a) > 0

\* C16: when the text of a RAG generation holds, alone or inside other
\* prose, an object with an answer and follow-ups, the answer returned is
\* exactly the object's answer and the follow-ups returned are exactly the
\* object's list.
C16_WellFormedObjectRoundTrips ==
    (EndedNormally /\ RagGenerationReturned /\ NoCollaboratorFailure
        /\ WellFormedAnswerObject) =>
        /\ ReturnedAnswer = Member(ParsedObject, AnswerKey).s
        /\ ReturnedFollowups = Member(ParsedObject, FollowupsKey)

\* C17: every assistant turn the query persists has a non-empty message and
\* every answer a one-shot response returns is non-empty, whatever the model
\* produced.
C17_AssistantTextNeverEmpty ==
    /\ \A i \in OwnAssistantTurns : log[i].message # << >>
    /\ (~req.streaming /\ response.status = 200 => response.answer # << >>)

\* the parsed object of a RAG answer carries no follow-ups: the field is
\* absent, not a list, or an empty list
ParsedWithoutFollowups ==
    /\ Parseable(RawText)
    /\ LET followups == Member(ParsedObject, FollowupsKey)
       IN  ~(IsArray(followups) /\ Len(followups.a) > 0)

\* C18: when the parsed output of a RAG answer supplies no follow-ups, the
\* response carries the heuristic follow-ups for the query's interrogative
\* word, between 1 and 3 of them, in the streaming and in the one-shot
\* execution, and the query ends normally.
C18_MissingFollowupsAreSynthesized ==
    (pc = "done" /\ RagGenerationReturned /\ NoCollaboratorFailure
        /\ ParsedWithoutFollowups) =>
        /\ EndedNormally
        /\ ReturnedFollowups =
              ArraySlice(StringList(generateStrategicFollowups(req.query, run.context)), 3)
        /\ Len(ReturnedFollowups.a) \in 1..3


\* the citation lists handed to the caller: those of the generating and
\* complete events of the stream and that of the one-shot response
ReturnedCitationLists ==
    { events[i].citations :
        i \in { j \in DOMAIN events : events[j].type \in {"generating", "complete"} } }
    \cup (IF ~req.streaming /\ response.status = 200 THEN {response.citations} ELSE {})

\* entry i of the list has index i and the id, metadata (an empty object for
\* a chunk that has none) and source id of the i-th ranked chunk
CitesRankedChunks(list, ranked) ==
    /\ Len(list) = Len(ranked)
    /\ \A i \in DOMAIN list :
          /\ list[i].index = i
          /\ list[i].id = ranked[i].id
          /\ list[i].sourceId = ranked[i].sourceId
          /\ list[i].metadata = (IF ranked[i].metadata = "null" THEN "{}"
                                 ELSE ranked[i].metadata)

\* the context block enumerates, as "(index) ", the content of the chunk each
\* entry of the list names, the blocks separated by an empty line
ContextEnumerates(context, list) ==
    context = Join([i \in DOMAIN list |->
                       <<40>> \o Decimal(list[i].index) \o <<41, 32>>
                           \o ChunkById(list[i].id).content],
                   <<10, 10>>)

\* C19: for a RAG answer over N ranked chunks, every citation list handed to
\* the caller (generating event, complete event, one-shot response) has N
\* entries with the indices 1..N, entry i carrying the id, metadata and
\* source id of the i-th ranked chunk, which is the chunk the context block
\* of the prompt enumerates as (i).
C19_CitationsFollowRankedOrder ==
    run.deduped # << >> =>
        /\ \A list \in ReturnedCitationLists : CitesRankedChunks(list, run.deduped)
        /\ (run.messages.template = "userRagQA" =>
               ContextEnumerates(run.messages.context, Citations(run.deduped)))

\* a finished RAG answer over three ranked chunks, one of them without
\* metadata, whose complete event or response carries the three citations
C19_Witness ==
    /\ EndedNormally
    /\ RagGenerationReturned
    /\ Len(run.deduped) = 3
    /\ \E i \in DOMAIN run.deduped : run.deduped[i].metadata = "null"
    /\ \E list \in ReturnedCitationLists : Len(list) = 3


\* the citation list handed to the caller with the answer
ReturnedCitations ==
    IF req.streaming THEN LastEvent.citations ELSE response.citations

\* C20: the assistant turn stored for a RAG answer carries the citation list
\* that is returned with the answer, in the streaming and in the one-shot
\* execution; the assistant turns of General-Chat and no-evidence answers
\* carry no citations.
C20_StoredTurnCarriesReturnedCitations ==
    /\ (EndedNormally /\ run.deduped # << >> =>
           ReturnedTurn.citations = ReturnedCitations)
    /\ (run.deduped = << >> =>
           \A i \in OwnAssistantTurns : log[i].citations = << >>)

\* the embedding, the search or the generation of the query has failed
RetrievalOrGenerationFailed ==
    \/ CallsHas("embedQuery:failed")
    \/ CallsHas("search:failed")
    \/ CallsHas("gen_fail")

\* the error handed to the caller: the 500 response of the one-shot
\* execution, the error event of a stream the caller still reads
UserSafeError ==
    IF req.streaming
    THEN /\ \A i \in DOMAIN events : events[i].type # "complete"
         /\ writer = "closed" => LastEvent = Ev("error", << >>, << >>, 0, NoFollowups)
    ELSE response = [NoResponse EXCEPT !.status = 500, !.error = "Query failed"]

RowsOf(q, role) == { i \in DOMAIN conc.chat : conc.chat[i].id = <<q, role>> }

\* row i comes before row j in every listing ORDER BY "createdAt" ASC
ListedBefore(i, j) == conc.chat[i].createdAt < conc.chat[j].createdAt

\* the turns each query has appended so far
AppendedBy(q) ==
    CASE conc.at[q] = "received" -> {}
      [] conc.at[q] \in {"answering", "answered"} -> {"user"}
      [] conc.at[q] = "done" -> {"user", "assistant"}
      [] conc.at[q] = "failed" -> { r \in {"user"} : RowsOf(q, r) # {} }

\* C22: concurrent queries of one workspace are not serialised, and under
\* every interleaving each query's user turn is listed before its own
\* assistant turn and every appended turn is in the table, once and as it
\* was appended.
C22_ConcurrentQueriesKeepEveryTurn ==
    /\ \A q \in Queries :
          /\ \A role \in AppendedBy(q) : Cardinality(RowsOf(q, role)) = 1
          /\ \A role \in {"user", "assistant"} \ AppendedBy(q) : RowsOf(q, role) = {}
          /\ \A i \in RowsOf(q, "user"), j \in RowsOf(q, "assistant") :
                i < j /\ ListedBefore(i, j)
    /\ \A i \in DOMAIN conc.chat :
          /\ conc.chat[i].role = conc.chat[i].id[2]
          /\ conc.chat[i].query = conc.chat[i].id[1]
    /\ \A i, j \in DOMAIN conc.chat : i < j =>
          conc.chat[i].createdAt <= conc.chat[j].createdAt

\* an interleaved conversation: the turns of another query lie between the
\* user turn and the assistant turn of a query
C22_Witness ==
    \E q, other \in Queries :
        /\ q # other
        /\ \E i \in RowsOf(q, "user"), j \in RowsOf(q, "assistant"),
              k \in RowsOf(other, "user"), l \in RowsOf(other, "assistant") :
              /\ ListedBefore(i, k)
              /\ ListedBefore(k, l)
              /\ ListedBefore(l, j)

\* C23: get-or-create of the default workspace is idempotent under every
\* interleaving: the table never holds two workspaces named "My Notebook",
\* and every call that the store served returns the one workspace, the calls
\* that lost the race to create it included.
C23_GetOrCreateIsIdempotent ==
    /\ Cardinality({ s \in ws.sessions : s.name = MyNotebook }) <= 1
    /\ \A c \in Callers :
          ws.at[c] = "done" /\ ~ws.outage[c] =>
              /\ ws.responded[c]
              /\ ws.returned[c] \in ws.sessions
              /\ ws.returned[c].name = MyNotebook

\* the two-pass procedure, stated per candidate: which positions of the
\* candidate list each pass accepts
SameFingerprint(a, b) == hashText(a.content) = hashText(b.content)

\* pass 1 accepts candidate i when no candidate accepted before it has its
\* fingerprint, fewer than 2 were accepted from its source, and fewer than
\* K were accepted in all
AcceptedByPass1(cands, K) ==
    LET acc[i \in 0..Len(cands)] ==
            IF i = 0 THEN {}
            ELSE LET before == acc[i - 1]
                 IN  IF /\ \A j \in before : ~SameFingerprint(cands[j], cands[i])
                        /\ Cardinality({ j \in before :
                               cands[j].sourceId = cands[i].sourceId }) < 2
                        /\ Cardinality(before) < K
                     THEN before \cup {i}
                     ELSE before
    IN  acc[Len(cands)]

\* pass 2 runs only when pass 1 accepted fewer than K: it accepts candidate
\* i when no accepted candidate has its fingerprint and fewer than K are
\* accepted in all
AcceptedByPass2(cands, K) ==
    LET first == AcceptedByPass1(cands, K)
        acc[i \in 0..Len(cands)] ==
            IF i = 0 THEN {}
            ELSE LET before == acc[i - 1]
                 IN  IF /\ \A j \in first \cup before :
                               ~SameFingerprint(cands[j], cands[i])
                        /\ Cardinality(first) + Cardinality(before) < K
                     THEN before \cup {i}
                     ELSE before
    IN  IF Cardinality(first) < K THEN acc[Len(cands)] ELSE {}

\* the candidates at the positions of a set, in input order
RECURSIVE InInputOrder(_, _)
InInputOrder(cands, positions) ==
    IF positions = {} THEN << >>
    ELSE LET i == CHOOSE x \in positions : \A y \in positions : x <= y
         IN  <<cands[i]>> \o InInputOrder(cands, positions \ {i})

TwoPassResult(cands, K) ==
    InInputOrder(cands, AcceptedByPass1(cands, K))
        \o InInputOrder(cands, AcceptedByPass2(cands, K))

\* K is a count: a positive integer
IsCount(topK) == ~topK.nan /\ topK.val >= 1

\* C24: for every candidate list and every count K the ranked set of either
\* copy of the ranker is the result of the two-pass procedure: the
\* candidates pass 1 accepts, in input order, followed (only when pass 1
\* accepted fewer than K) by the candidates pass 2 accepts, in input order.
C24_RankedSetIsTwoPassResult ==
    IsCount(rk.topK) =>
        /\ (rk.phase \notin {"off", "input"} =>
               rk.pass1 = InInputOrder(rk.cands, AcceptedByPass1(rk.cands, rk.topK.val)))
        /\ (rk.phase \in {"s_done", "n_pass1", "done"} =>
               rk.outS = TwoPassResult(rk.cands, rk.topK.val))
        /\ (rk.phase = "done" => rk.outN = TwoPassResult(rk.cands, rk.topK.val))

\* [d1(s1), d2(s1), d3(s2)] with K = 2 and cap 2 gives [d1, d2]
C24_Witness ==
    /\ rk.phase = "done"
    /\ rk.topK = Num(2)
    /\ rk.cands = <<ChunkById("c1"), ChunkById("c4"), ChunkById("c6")>>
    /\ rk.outS = <<ChunkById("c1"), ChunkById("c4")>>
    /\ rk.outN = <<ChunkById("c1"), ChunkById("c4")>>


\* D: the number of distinct fingerprints among the candidates
DistinctFingerprints(cands) ==
    Cardinality({ hashText(cands[i].content) : i \in DOMAIN cands })

Min(a, b) == IF a <= b THEN a ELSE b

\* C25: for a count K the ranked set of either copy has exactly min(K, D)
\* entries, D being the number of distinct fingerprints among the
\* candidates; an empty candidate list gives an empty ranked set for every
\* parsed topK.
C25_RankedSetHasMinOfTopKAndDistinct ==
    /\ (rk.phase \in {"s_done", "n_pass1", "done"} =>
           /\ (IsCount(rk.topK) =>
                  Len(rk.outS) = Min(rk.topK.val, DistinctFingerprints(rk.cands)))
           /\ (rk.cands = << >> => rk.outS = << >>))
    /\ (rk.phase = "done" =>
           /\ (IsCount(rk.topK) =>
                  Len(rk.outN) = Min(rk.topK.val, DistinctFingerprints(rk.cands)))
           /\ (rk.cands = << >> => rk.outN = << >>))

\* three chunks of one source with three fingerprints, K = 3: the cap stops
\* the first loop at two and the second loop restores the third
C25_Witness ==
    /\ rk.phase = "done"
    /\ rk.topK = Num(3)
    /\ Len(rk.cands) = 4
    /\ \A i \in 1..3 : rk.cands[i].sourceId = "s1"
    /\ DistinctFingerprints(rk.cands) = 3
    /\ Len(rk.pass1N) = 2
    /\ Len(rk.outN) = 3
    /\ Len(rk.outS) = 3


\* C26: a query appends at most one assistant turn to the log, and exactly
\* one when it ends with `complete` or a normal one-shot response, on every
\* path, also when a write to the caller fails after the turn was stored.
C26_AtMostOneAssistantTurnPerQuery ==
    /\ Cardinality(OwnAssistantTurns) <= 1
    /\ (EndedNormally => Cardinality(OwnAssistantTurns) = 1)


\* the source of a citation is a source of the workspace
SourceBelongsTo(sourceId, sessionId) ==
    \E s \in SourceRows : s.id = sourceId /\ s.sessionId = sessionId

C28_CrawlVisitsAtMostMaxPages ==
    /\ Cardinality(crawl.visited) <= crawl.maxPages
    /\ crawl.fetches <= crawl.maxPages
    /\ (crawl.at = "returned" => Cardinality(crawl.result) <= crawl.maxPages)


\* the chunk rows of a source
ChunksOf(sourceId) == { c \in ing.store.chunks : c[1] = sourceId }

\* C29: when the ingestion of a source has failed at any step, no Source row
\* and no chunk of that source is in the store; a source that is in the
\* store after the call has all the chunks the splitter made.
C29_IngestionIsAllOrNothing ==
    /\ (ing.at = "thrown" =>
           /\ NewSource \notin ing.store.sources
           /\ ChunksOf(NewSource) = {})
    /\ (ing.at \in {"thrown", "returned"} /\ NewSource \in ing.store.sources =>
           Cardinality(ChunksOf(NewSource)) = ing.made)


\* C30: however the response body is split into chunks, onEvent gets the
\* events the server wrote, each once and in the order written: what has
\* been delivered is always a prefix of what was sent, and all of it once
\* the body is read to its end.
C30_ClientDeliversTheServersEvents ==
    /\ Len(cli.delivered) <= Len(cli.sent)
    /\ cli.delivered = SubSeq(cli.sent, 1, Len(cli.delivered))
    /\ (cli.at = "done" => cli.delivered = cli.sent)

\* the body was read to its end in chunks that cut the data line of the
\* second event, between the two bytes of a character
C30_Witness ==
    /\ cli.at = "reading"
    /\ Len(cli.sent) = 2
    /\ cli.sent[2].content = <<233>>
    /\ cli.delivered = <<cli.sent[1]>>
    /\ cli.pending # << >>
    /\ IsPrefix(DataPrefix \o TypeKeyText, cli.buffer)

====
